---------------------------- MODULE Spec2Model ----------------------------
(***************************************************************************)
(* Model of the asynchronous inference job pipeline of NeuroAssistant:     *)
(*   - the job queue and its workers (types of src/backend/queue/jobs.ts;  *)
(*     the queue module itself, @/backend/queue/queue, is not part of the  *)
(*     sources and is modelled from its specification),                    *)
(*   - the status stream bridge   (src/app/api/queue/stream/[jobId]/route.ts), *)
(*   - the batch assembler of the PDF reader (src/unnamed/part_001),       *)
(*   - the provider router and adapter (src/lib/smart-router.ts,           *)
(*     src/lib/ai-providers.ts, src/app/api/explain/route.ts).             *)
(* Each component has its own specifications (SpecQueue; SpecStream and    *)
(* SpecPolls for the stream; SpecBatch, SpecInline, SpecLong, SpecPoll,    *)
(* SpecResults, SpecDrain, SpecOrder for the assembler; SpecRouter,        *)
(* SpecAdapter, SpecAdapterFair) over the shared variable list; a          *)
(* specification leaves the variables of the other components untouched.   *)
(***************************************************************************)
EXTENDS Integers, Sequences, FiniteSets, TLC

VARIABLES
  \* ---- job queue and workers
  qjobs,        \* Seq of JobStatus records joined with their Job (index = jobId);
                \* startedAt and completedAt are kept as "unset"/"set", their
                \* values decide nothing
  qclock,       \* Date.now() as seen by the queue
  qworker,      \* worker -> jobId it is processing, 0 when idle
  qclaims,      \* history: jobId -> number of claimNext calls that returned it
  qcaWrites     \* history: jobId -> number of writes of completedAt

queueVars == <<qjobs, qclock, qworker, qclaims, qcaWrites>>

VARIABLES
  \* ---- status stream bridge (one open stream on one jobId)
  srec,         \* the Status Store's record of the watched job
  lastStatus,   \* `lastStatus` of the stream (route.ts line 26)
  pollInterval, \* TRUE while the setInterval timer is armed
  sclosed,      \* TRUE once controller.close() has succeeded
  sevents,      \* what controller.enqueue() has accepted, in order
  spolls,       \* poll callbacks in flight: awaiting the read, or holding its answer
  sticks,       \* number of interval ticks so far
  saborted,     \* TRUE once the request's abort signal has fired
  sfaults,      \* exceptions that escaped a callback (unhandled)
  ssaw,         \* history: <<status, error>> of the terminal records a callback
                \* met while the stream was open
  slastRead     \* history: status and progress answered to the latest read
                \* (kept only by the specification that starts it at NothingRead)

streamVars == <<srec, lastStatus, pollInterval, sclosed, sevents, spolls, sticks,
                saborted, sfaults, ssaw, slastRead>>

VARIABLES
  \* ---- batch assembler (one PDFReader component)
  doc,                 \* the document being read
  nextPage,            \* the next page whose text has not been loaded yet
  summaryQueue,        \* summaryQueueRef.current
  isProcessingQueue,   \* isProcessingQueueRef.current
  generatingSummaries, \* the generatingSummaries state
  pageSummaryCache,    \* the store's pageSummaryCache: page -> summary, "" when none
  effectSnap,          \* the render held by the closures of the effects
  drainSnap,           \* the render held by the closure running the drain loop
  dpc,                 \* where the drain loop waits: idle, fetch, poll, delay
  curPages,            \* pagesToProcess of the POST awaited
  chains,              \* the queued (202) batch jobs still polled
  everPlaced,          \* history: pages given the placeholder summary
  everSent,            \* history: pages submitted in a batch
  reenq,               \* history: a page cached, generating or queued was queued again
  hist,                \* history: the pages pushed on the queue and the batches
                       \* POSTed, in order, and the page the last batch left
                       \* at the front for its tokens (kept by SpecOrder only)
  nfaults,             \* history: responses and jobs that did not resolve every page
  nrequeues            \* history: pages queued again by a revisit or by the button

batchVars == <<doc, nextPage, summaryQueue, isProcessingQueue, generatingSummaries,
               pageSummaryCache, effectSnap, drainSnap, dpc, curPages, chains,
               everPlaced, everSent, reenq, hist, nfaults, nrequeues>>

VARIABLES
  \* ---- provider router and adapter (one request)
  routerInput,      \* the RouterInput handed to selectModel
  selected,         \* what selectModel returned ("none" before the call)
  env,              \* the providers whose API key is set in process.env
  history,          \* StreamOptions.history: its messages 1..n in order, or Undefined
  modelSelection,   \* model.provider handed to streamFromProvider ("none" before)
  optimizedHistory, \* `optimizedHistory` of the running streamFromProvider
  awaiting,         \* the upstream call awaited: 0 the primary, i the i-th fallback
  calls,            \* the upstream calls issued, in order
  outcome,          \* how streamFromProvider ended: none, stream, thrown
  error,            \* `error` of the catch block (ai-providers.ts line 147)
  thrownError,      \* the error streamFromProvider has thrown
  response,         \* the Response of POST /api/explain: none, 400, 500-nokeys,
                    \* 200-stream, 500-error
  apc               \* idle, routing (selectModel only), calling, done

routerVars == <<routerInput, selected, env, history, modelSelection, optimizedHistory,
                awaiting, calls, outcome, error, thrownError, response, apc>>

vars == <<queueVars, streamVars, batchVars, routerVars>>

-----------------------------------------------------------------------------
(***************************************************************************)
(* Job queue and workers                                                   *)
(***************************************************************************)

\* Bounds of the queue model.
MaxJobs == 3
NumWorkers == 2

Workers == 1..NumWorkers

\* type JobType (jobs.ts line 5)
JobTypes == {"explain", "summarize", "summarize-batch"}

\* JobStatus.status (jobs.ts line 47)
JobStatusValues == {"queued", "processing", "completed", "failed"}

\* A mutation of JOB_PRIORITIES: the batch and the single-page priorities swapped.
JOB_PRIORITIES_Swapped(t) ==
  CASE t = "explain" -> 10
    [] t = "summarize-batch" -> 1
    [] t = "summarize" -> 5

\* JOB_PRIORITIES (jobs.ts lines 60-64): higher number = higher priority.
JOB_PRIORITIES(t) ==
  CASE t = "explain" -> 10
    [] t = "summarize-batch" -> 5
    [] t = "summarize" -> 1

QJobIds == 1..Len(qjobs)

\* A claim that forgets the compare of the compare-and-set: a job already
\* `processing` is still handed out.
ClaimableNoCompare == {j \in QJobIds : qjobs[j].status \in {"queued", "processing"}}

\* The jobs claimNext may take: those whose stored status is still `queued`
\* (the compare of the compare-and-set queued -> processing).
Claimable == {j \in QJobIds : qjobs[j].status = "queued"}

\* Strict priority, FIFO on createdAt within a priority.
Before(j, k) ==
  \/ qjobs[j].priority > qjobs[k].priority
  \/ /\ qjobs[j].priority = qjobs[k].priority
     /\ qjobs[j].createdAt <= qjobs[k].createdAt

\* The candidates claimNext selects among: no other claimable job goes before.
BestJobs == {j \in Claimable : \A k \in Claimable : Before(j, k)}

\* A step of the queue leaves the other components alone.
QueueOnly == UNCHANGED <<streamVars, batchVars, routerVars>>

\* enqueue(job) -> jobId, `dt` milliseconds after the previous enqueue (two
\* jobs may be created within the same millisecond): the queue assigns the
\* priority of the job's type and persists the `queued` status.
Enqueue(t, dt) ==
  /\ Len(qjobs) < MaxJobs
  /\ qclock' = qclock + dt
  /\ qjobs' = Append(qjobs, [type |-> t, priority |-> JOB_PRIORITIES(t),
                             status |-> "queued", createdAt |-> qclock',
                             startedAt |-> "unset", completedAt |-> "unset"])
  /\ UNCHANGED <<qworker, qclaims, qcaWrites>>
  /\ QueueOnly

\* claimNext() by an idle worker: one atomic step that selects the best
\* claimable job and marks it `processing` with startedAt set.
ClaimNext(w) ==
  /\ qworker[w] = 0
  /\ \E j \in BestJobs :
       /\ qjobs' = [qjobs EXCEPT ![j].status = "processing", ![j].startedAt = "set"]
       /\ qworker' = [qworker EXCEPT ![w] = j]
       /\ qclaims' = [qclaims EXCEPT ![j] = @ + 1]
  /\ UNCHANGED <<qclock, qcaWrites>>
  /\ QueueOnly

\* The worker that claimed the job writes status=completed, result, completedAt.
Complete(w) ==
  /\ qworker[w] # 0
  /\ LET j == qworker[w] IN
       /\ qjobs' = [qjobs EXCEPT ![j].status = "completed", ![j].completedAt = "set"]
       /\ qcaWrites' = [qcaWrites EXCEPT ![j] = @ + 1]
  /\ qworker' = [qworker EXCEPT ![w] = 0]
  /\ UNCHANGED <<qclock, qclaims>>
  /\ QueueOnly

\* The worker that claimed the job writes status=failed, error.
Fail(w) ==
  /\ qworker[w] # 0
  /\ LET j == qworker[w] IN
       qjobs' = [qjobs EXCEPT ![j].status = "failed"]
  /\ qworker' = [qworker EXCEPT ![w] = 0]
  /\ UNCHANGED <<qclock, qclaims, qcaWrites>>
  /\ QueueOnly

QueueNext ==
  \/ \E t \in JobTypes, dt \in {0, 1} : Enqueue(t, dt)
  \/ \E w \in Workers : ClaimNext(w)
  \/ \E w \in Workers : Complete(w)
  \/ \E w \in Workers : Fail(w)

-----------------------------------------------------------------------------
(***************************************************************************)
(* Status stream bridge: GET of src/app/api/queue/stream/[jobId]/route.ts  *)
(***************************************************************************)

\* Bounds of the stream model.
MaxPolls == 4
MaxInflight == 2

\* JobStatus.result (jobs.ts lines 37-43, 50): absent, or a JobResult whose
\* `success` and `data` are what the branches of route.ts lines 47-63 tell apart.
ResultShapes ==
  { [present |-> FALSE, success |-> FALSE, data |-> "undefined"],
    [present |-> TRUE,  success |-> TRUE,  data |-> "string"],
    [present |-> TRUE,  success |-> TRUE,  data |-> "object"],
    [present |-> TRUE,  success |-> TRUE,  data |-> "number"],
    [present |-> TRUE,  success |-> TRUE,  data |-> "emptystring"],
    [present |-> TRUE,  success |-> TRUE,  data |-> "undefined"],
    [present |-> TRUE,  success |-> FALSE, data |-> "undefined"] }

NoResult == [present |-> FALSE, success |-> FALSE, data |-> "undefined"]

\* JobStatus.error (jobs.ts line 51): absent ("") or a message.
ErrorValues == {"", "boom"}

\* JobStatus.progress (jobs.ts line 49): absent, a percentage, or streaming
\* content (possibly the empty string).
ProgressValues == {"absent", "percent", "content:", "content:a", "content:b"}

\* JavaScript truthiness of result.data (route.ts line 49).
Truthy(data) == data \in {"string", "object", "number"}

\* route.ts lines 88-91: progress is an object holding non-empty content.
HasContent(pr) == pr \in {"content:a", "content:b"}

StoredRecord(st, res, err, pr) ==
  [status |-> st, result |-> res, error |-> err, progress |-> pr]

\* What getJobStatus can answer: no record (never enqueued, or expired),
\* or the stored JobStatus.
Absent == StoredRecord("absent", NoResult, "", "absent")
Expired == StoredRecord("expired", NoResult, "", "absent")

\* getJobStatus (imported at route.ts line 7): null when there is no record.
IsNull(rec) == rec.status \in {"absent", "expired"}

\* The answer of a read that threw.
ReadError == StoredRecord("throw", NoResult, "", "absent")

\* Events as the client sees them: <<type, data>>.
EvDone == <<"[DONE]", "">>
EvNotFound == <<"raw-error", "Job not found">>
EvReadError == <<"raw-error", "read error">>
EvResult(data) == <<"result", IF data = "string" THEN "content" ELSE "summaries">>
EvError(err) == <<"error", IF err # "" THEN err ELSE "Job failed">>
EvStatus == <<"status", "processing">>
EvProgress(pr) == <<"progress", pr>>

\* The mutable state a poll callback works on, with `thrown` the pending exception.
StreamState ==
  [lastStatus |-> lastStatus, interval |-> pollInterval, closed |-> sclosed,
   events |-> sevents, thrown |-> FALSE]

\* An enqueue that a closed controller accepts.
ControllerEnqueueUnchecked(s, ev) ==
  IF s.thrown THEN s ELSE [s EXCEPT !.events = Append(@, ev)]

\* controller.enqueue (route.ts lines 30, 65, 75): a TypeError once the
\* controller is closed.
ControllerEnqueue(s, ev) ==
  IF s.thrown THEN s
  ELSE IF s.closed THEN [s EXCEPT !.thrown = TRUE]
  ELSE [s EXCEPT !.events = Append(@, ev)]

\* sendEvent (route.ts lines 28-31)
SendEvent(s, ev) == ControllerEnqueue(s, ev)

\* clearInterval(pollInterval)
ClearInterval(s) == IF s.thrown THEN s ELSE [s EXCEPT !.interval = FALSE]

\* controller.close(): a TypeError when already closed.
ControllerClose(s) ==
  IF s.thrown THEN s
  ELSE IF s.closed THEN [s EXCEPT !.thrown = TRUE]
  ELSE [s EXCEPT !.closed = TRUE]

SetLastStatus(s, v) == IF s.thrown THEN s ELSE [s EXCEPT !.lastStatus = v]

\* The terminal tail shared by both terminal branches (lines 65-68, 75-78).
DoneAndClose(s) == ControllerClose(ClearInterval(ControllerEnqueue(s, EvDone)))

\* A not-found branch that sends its event and goes on polling.
OnNotFoundNoClose(s) == SendEvent(s, EvNotFound)

\* route.ts lines 38-43: no record.
OnNotFound(s) == ControllerClose(ClearInterval(SendEvent(s, EvNotFound)))

\* route.ts lines 47-68: completed, with a result.
OnCompleted(s, rec) ==
  LET r == rec.result
      sent == IF r.success /\ Truthy(r.data)
              THEN IF r.data = "string" THEN SendEvent(s, EvResult("string"))
                   ELSE IF r.data = "object" THEN SendEvent(s, EvResult("object"))
                   ELSE s
              ELSE s
  IN DoneAndClose(sent)

\* A failed branch that forgets to close the stream and stop the timer.
OnFailedNoClose(s, rec) == ControllerEnqueue(SendEvent(s, EvError(rec.error)), EvDone)

\* route.ts lines 69-78: failed.
OnFailed(s, rec) == DoneAndClose(SendEvent(s, EvError(rec.error)))

\* route.ts lines 36-98: the body of the try block, given the answer of the read.
TryBody(s, rec) ==
  IF rec = ReadError THEN [s EXCEPT !.thrown = TRUE]
  ELSE IF IsNull(rec) THEN OnNotFound(s)
  ELSE IF rec.status # s.lastStatus
       THEN IF rec.status = "completed" /\ rec.result.present THEN OnCompleted(s, rec)
            ELSE IF rec.status = "failed" THEN OnFailed(s, rec)
            ELSE IF rec.status = "processing"
                 THEN SetLastStatus(SendEvent(s, EvStatus), rec.status)
            ELSE SetLastStatus(s, rec.status)
       ELSE IF HasContent(rec.progress) THEN SendEvent(s, EvProgress(rec.progress))
       ELSE s

\* A catch block that reports the exception and lets the timer run on.
CatchBlockNoClose(s) ==
  IF s.thrown THEN SendEvent([s EXCEPT !.thrown = FALSE], EvReadError) ELSE s

\* route.ts lines 99-105: the catch block; what it throws escapes the callback.
CatchBlock(s) ==
  IF s.thrown
  THEN ControllerClose(ClearInterval(SendEvent([s EXCEPT !.thrown = FALSE], EvReadError)))
  ELSE s

\* One run of the poll callback after its read has answered `rec`.
PollCallback(s, rec) == CatchBlock(TryBody(s, rec))

StreamOnly == UNCHANGED <<queueVars, batchVars, routerVars>>

\* What a poll observes of the record it reads: its status and its progress.
Observed(rec) == [status |-> rec.status, progress |-> rec.progress]

\* No poll has read anything yet.
NothingRead == [status |-> "none", progress |-> "absent"]

\* The history of reads is not kept.
ReadsNotKept == [status |-> "not-kept", progress |-> "absent"]

\* ---- the Status Store's writer (the queue and the worker that owns the job)

StoreEnqueue ==
  /\ srec = Absent
  /\ srec' = StoredRecord("queued", NoResult, "", "absent")
  /\ UNCHANGED <<lastStatus, pollInterval, sclosed, sevents, spolls, sticks, saborted,
                 sfaults, ssaw, slastRead>>
  /\ StreamOnly

StoreClaim ==
  /\ srec.status = "queued"
  /\ srec' = [srec EXCEPT !.status = "processing"]
  /\ UNCHANGED <<lastStatus, pollInterval, sclosed, sevents, spolls, sticks, saborted,
                 sfaults, ssaw, slastRead>>
  /\ StreamOnly

StoreProgress(pr) ==
  /\ srec.status = "processing"
  /\ srec.progress # pr
  /\ srec' = [srec EXCEPT !.progress = pr]
  /\ UNCHANGED <<lastStatus, pollInterval, sclosed, sevents, spolls, sticks, saborted,
                 sfaults, ssaw, slastRead>>
  /\ StreamOnly

StoreComplete(res) ==
  /\ srec.status = "processing"
  /\ srec' = [srec EXCEPT !.status = "completed", !.result = res]
  /\ UNCHANGED <<lastStatus, pollInterval, sclosed, sevents, spolls, sticks, saborted,
                 sfaults, ssaw, slastRead>>
  /\ StreamOnly

StoreFail(err) ==
  /\ srec.status = "processing"
  /\ srec' = [srec EXCEPT !.status = "failed", !.error = err]
  /\ UNCHANGED <<lastStatus, pollInterval, sclosed, sevents, spolls, sticks, saborted,
                 sfaults, ssaw, slastRead>>
  /\ StreamOnly

\* The record's time to live runs out.
StoreExpire ==
  /\ srec.status \in {"completed", "failed"}
  /\ srec' = Expired
  /\ UNCHANGED <<lastStatus, pollInterval, sclosed, sevents, spolls, sticks, saborted,
                 sfaults, ssaw, slastRead>>
  /\ StreamOnly

\* ---- the stream

\* The interval fires (route.ts line 34): a new callback starts its read.
IntervalTick ==
  /\ pollInterval
  /\ sticks < MaxPolls
  /\ Len(spolls) < MaxInflight
  /\ sticks' = sticks + 1
  /\ spolls' = Append(spolls, [pc |-> "await", rec |-> Absent, prev |-> NothingRead])
  /\ UNCHANGED <<srec, lastStatus, pollInterval, sclosed, sevents, saborted, sfaults, ssaw,
                 slastRead>>
  /\ StreamOnly

\* The read of callback i is answered (route.ts line 36): the stored record
\* at that moment, or an exception.
ReadAnswers(i, ok) ==
  /\ i \in 1..Len(spolls)
  /\ spolls[i].pc = "await"
  /\ spolls' = [spolls EXCEPT ![i] = [pc |-> "got", rec |-> IF ok THEN srec ELSE ReadError,
                                       prev |-> slastRead]]
  /\ slastRead' = IF ok /\ slastRead # ReadsNotKept THEN Observed(srec) ELSE slastRead
  /\ UNCHANGED <<srec, lastStatus, pollInterval, sclosed, sevents, sticks, saborted,
                 sfaults, ssaw>>
  /\ StreamOnly

RemoveAt(seq, i) == SubSeq(seq, 1, i - 1) \o SubSeq(seq, i + 1, Len(seq))

\* Callback i resumes after its await and runs to its end (route.ts lines 38-105).
PollResumes(i) ==
  /\ i \in 1..Len(spolls)
  /\ spolls[i].pc = "got"
  /\ LET rec == spolls[i].rec
         s == PollCallback(StreamState, rec)
     IN /\ lastStatus' = s.lastStatus
        /\ pollInterval' = s.interval
        /\ sclosed' = s.closed
        /\ sevents' = s.events
        /\ sfaults' = IF s.thrown THEN sfaults + 1 ELSE sfaults
        /\ ssaw' = IF ~sclosed /\ rec.status \in {"completed", "failed"}
                   THEN ssaw \cup {<<rec.status, rec.error>>} ELSE ssaw
  /\ spolls' = RemoveAt(spolls, i)
  /\ UNCHANGED <<srec, sticks, saborted, slastRead>>
  /\ StreamOnly

\* The client disconnects (route.ts lines 109-112).
Abort ==
  /\ ~saborted
  /\ saborted' = TRUE
  /\ LET s == ControllerClose(ClearInterval(StreamState))
     IN /\ pollInterval' = s.interval
        /\ sclosed' = s.closed
        /\ sfaults' = IF s.thrown THEN sfaults + 1 ELSE sfaults
  /\ UNCHANGED <<srec, lastStatus, sevents, spolls, sticks, ssaw, slastRead>>
  /\ StreamOnly

StreamNext ==
  \/ StoreEnqueue
  \/ StoreClaim
  \/ \E pr \in ProgressValues : StoreProgress(pr)
  \/ \E res \in ResultShapes : StoreComplete(res)
  \/ \E err \in ErrorValues : StoreFail(err)
  \/ StoreExpire
  \/ IntervalTick
  \/ \E i \in 1..MaxInflight, ok \in BOOLEAN : ReadAnswers(i, ok)
  \/ \E i \in 1..MaxInflight : PollResumes(i)
  \/ Abort

-----------------------------------------------------------------------------
(***************************************************************************)
(* Batch assembler: PDFReader of src/unnamed/part_001                      *)
(*                                                                         *)
(* summaryQueueRef and isProcessingQueueRef are refs: every closure reads  *)
(* their current value.  generatingSummaries (useState, line 31) and       *)
(* pageSummaryCache (store selector, line 19) are values of one render: a  *)
(* function created in a render reads that render's values for as long as  *)
(* it runs.  The drain loop therefore works on the values of the render    *)
(* whose queueSummary started it (drainSnap), and the queueSummary calls   *)
(* made from an effect work on the values of the render that ran the       *)
(* effect (effectSnap).  State setters (setGeneratingSummaries with an     *)
(* updater, setPageSummary) act on the current state.                      *)
(***************************************************************************)

\* Bounds of the assembler model.
NumPages == 22
MaxChains == 1
MaxPendingPolls == 1
MaxFaults == 1
MaxRequeues == 1

\* Program constants.
MAX_BATCH_PAGES == 20
MAX_BATCH_TOKENS == 25000
MinPageChars == 10
CharsPerToken == 4
maxAttempts == 300

\* A page text, by what the code looks at: its length, the length of its
\* trim(), and the number of its non-whitespace characters.
Text(len, trim, nonws) == [len |-> len, trim |-> trim, nonws |-> nonws]

TBlank  == Text(3, 0, 0)               \* "   "
TShort  == Text(5, 5, 5)               \* "short"
TSpaced == Text(11, 11, 6)             \* "a b c d e f"
TNine   == Text(11, 9, 9)              \* " 123456789 "
TTen    == Text(10, 10, 10)            \* "1234567890"
TNormal == Text(40, 40, 34)
THalf   == Text(49999, 49999, 42000)   \* 12500 estimated tokens
TOver   == Text(100001, 100001, 84000) \* 25001 estimated tokens

\* The documents read: one of large pages around the token budget, one of
\* near-empty pages, and last a long one of ordinary pages.
Docs ==
  << <<TOver, THalf, THalf, THalf, TTen>>,
     <<TShort, TSpaced, TBlank, TNine>>,
     [p \in 1..NumPages |-> TNormal] >>

\* The long document is the last one.
LongDoc == Len(Docs)

\* The summaries a page can hold in pageSummaryCache ("" = none).
PLACEHOLDER == "No text content available for this page."
SummaryValues == {"", PLACEHOLDER, "summary", "raw"}

\* What a batch result maps: every page of the batch to its summary, every
\* page but the first, none; only pages that are not of the batch; the pages
\* of the batch to something that is no summary text.
KeyChoices == {"all", "rest", "none", "stray", "junk"}

\* How the POST to /api/summarize-batch can end (lines 130-266).
ResponseKinds == {"throw", "json", "fenced", "array", "raw", "empty", "queued"}

Pages == 1..Len(Docs[doc])

\* A queue entry { pageNum, pageText } (line 36).
Item(p) == [pageNum |-> p, pageText |-> Docs[doc][p]]

PageNums(items) == {items[i].pageNum : i \in 1..Len(items)}

\* The values of generatingSummaries and pageSummaryCache one render holds.
Snap(gen, cache) == [gen |-> gen, cache |-> cache]

\* The render on screen.
CurrentRender == Snap(generatingSummaries, pageSummaryCache)

\* Lines 62, 112 and 294: generating or cached, as the closure sees it.
AlreadyDone(p, snap) == p \in snap.gen \/ snap.cache[p] # ""

\* An empty-page test that forgets the trim().
IsEmptyPageNoTrim(text) == text.len = 0 \/ text.len < MinPageChars

\* Line 68: !item.pageText || item.pageText.trim().length < 10
IsEmptyPage(text) == text.len = 0 \/ text.trim < MinPageChars

\* Line 75: Math.ceil(item.pageText.length / 4)
EstimatedTokens(text) == (text.len + CharsPerToken - 1) \div CharsPerToken

\* A loop guard that is off by one.
BatchHasRoomOffByOne(batch) == Len(batch) <= MAX_BATCH_PAGES

\* Line 57: batch.length < MAX_BATCH_PAGES
BatchHasRoom(batch) == Len(batch) < MAX_BATCH_PAGES

\* A token check that looks at the candidate alone and forgets the running sum.
ExceedsTokensNoSum(batch, tokens, est) == Len(batch) > 0 /\ est > MAX_BATCH_TOKENS

\* A token check that also stops on the first page of a batch.
ExceedsTokensAlone(batch, tokens, est) == tokens + est > MAX_BATCH_TOKENS

\* Line 79: batch.length > 0 && currentBatchTokens + estimatedTokens > MAX_BATCH_TOKENS
ExceedsTokens(batch, tokens, est) == Len(batch) > 0 /\ tokens + est > MAX_BATCH_TOKENS

\* A batch that grows at its front.
BatchUnshift(batch, item) == <<item>> \o batch

\* Line 86: batch.push(item)
BatchPush(batch, item) == Append(batch, item)

\* Lines 53-88: the inner loop that builds one batch from the front of the
\* queue; `placed` collects the pages given the placeholder (line 70), `left`
\* is the page the token check of line 79 left at the front (0 when none).
RECURSIVE BuildBatch(_, _, _, _, _)
BuildBatch(q, batch, tokens, placed, snap) ==
  IF ~(BatchHasRoom(batch) /\ Len(q) > 0)
  THEN [queue |-> q, batch |-> batch, tokens |-> tokens, placed |-> placed, left |-> 0]
  ELSE LET item == Head(q) IN
       IF AlreadyDone(item.pageNum, snap)
       THEN BuildBatch(Tail(q), batch, tokens, placed, snap)
       ELSE IF IsEmptyPage(item.pageText)
       THEN BuildBatch(Tail(q), batch, tokens, placed \cup {item.pageNum}, snap)
       ELSE IF ExceedsTokens(batch, tokens, EstimatedTokens(item.pageText))
       THEN [queue |-> q, batch |-> batch, tokens |-> tokens, placed |-> placed,
             left |-> item.pageNum]
       ELSE BuildBatch(Tail(q), BatchPush(batch, item),
                       tokens + EstimatedTokens(item.pageText), placed, snap)

\* setPageSummary(p, value) for every p of `ps`.
SetPageSummaries(cache, ps, value) ==
  [p \in DOMAIN cache |-> IF p \in ps THEN value ELSE cache[p]]

\* A loop that paces after every batch, the last one too.
AfterBatchAlwaysDelay(q) == "delay"

\* Lines 97-103: after a batch, pace when pages are pending, else the loop ends.
AfterBatch(q) == IF Len(q) > 0 THEN "delay" ELSE "idle"

\* Lines 52-94 and 111-139: one pass of the drain loop up to its first await:
\* build a batch, and if it is not empty filter it (lines 111-113), mark its
\* pages generating and POST it.  An empty batch means the queue ran empty.
ProcessQueue(q, snap, cache, gen) ==
  LET b == BuildBatch(q, <<>>, 0, {}, snap)
      cache1 == SetPageSummaries(cache, b.placed, PLACEHOLDER)
      todo == SelectSeq(b.batch, LAMBDA it : ~AlreadyDone(it.pageNum, snap))
  IN IF Len(b.batch) = 0
     THEN [queue |-> b.queue, cache |-> cache1, gen |-> gen, pc |-> "idle",
           cur |-> <<>>, placed |-> b.placed, left |-> b.left]
     ELSE IF Len(todo) = 0
     THEN [queue |-> b.queue, cache |-> cache1, gen |-> gen,
           pc |-> AfterBatch(b.queue), cur |-> <<>>, placed |-> b.placed,
           left |-> b.left]
     ELSE [queue |-> b.queue, cache |-> cache1, gen |-> gen \cup PageNums(todo),
           pc |-> "fetch", cur |-> todo, placed |-> b.placed, left |-> b.left]

\* The history when nothing was queued yet, and the history that is not kept.
NothingQueued == [pushed |-> <<>>, posted |-> <<>>, left |-> 0]
HistoryNotKept == [pushed |-> <<>>, posted |-> <<>>, left |-> -1]

PageNumSeq(pages) == [i \in 1..Len(pages) |-> pages[i].pageNum]

\* Line 303: summaryQueueRef.current.push(...) has run for page p.
Pushed(h, p) ==
  IF h = HistoryNotKept THEN h ELSE [h EXCEPT !.pushed = Append(@, p)]

\* Line 130: the batch d.cur has been POSTed, d.left stayed at the front.
Posted(h, d) ==
  IF h = HistoryNotKept \/ d.cur = <<>> THEN h
  ELSE [h EXCEPT !.posted = Append(@, PageNumSeq(d.cur)), !.left = d.left]

\* The drain loop moves on to what ProcessQueue computed.
ApplyDrain(d, h) ==
  /\ hist' = Posted(h, d)
  /\ summaryQueue' = d.queue
  /\ pageSummaryCache' = d.cache
  /\ generatingSummaries' = d.gen
  /\ dpc' = d.pc
  /\ isProcessingQueue' = (d.pc # "idle")
  /\ curPages' = d.cur
  /\ everPlaced' = everPlaced \cup d.placed
  /\ everSent' = everSent \cup PageNums(d.cur)

InQueue(p) == \E i \in 1..Len(summaryQueue) : summaryQueue[i].pageNum = p

BatchOnly == UNCHANGED <<queueVars, streamVars, routerVars>>

\* Lines 293-305: queueSummary(pageNum, pageText) called from a closure that
\* holds `snap`; processSummaryQueue (lines 42-47) starts the drain when none
\* is running, and the drain keeps the caller's closure.
QueueSummary(p, snap) ==
  LET refused == AlreadyDone(p, snap) \/ InQueue(p)
      held == AlreadyDone(p, CurrentRender) \/ InQueue(p)
  IN /\ reenq' = (reenq \/ (held /\ ~refused))
     /\ IF refused
        THEN UNCHANGED <<summaryQueue, pageSummaryCache, generatingSummaries, dpc,
                         isProcessingQueue, curPages, everPlaced, everSent, drainSnap,
                         hist>>
        ELSE IF isProcessingQueue
        THEN /\ summaryQueue' = Append(summaryQueue, Item(p))
             /\ hist' = Pushed(hist, p)
             /\ UNCHANGED <<pageSummaryCache, generatingSummaries, dpc,
                            isProcessingQueue, curPages, everPlaced, everSent, drainSnap>>
        ELSE /\ drainSnap' = snap
             /\ ApplyDrain(ProcessQueue(Append(summaryQueue, Item(p)), snap,
                                        pageSummaryCache, generatingSummaries),
                           Pushed(hist, p))

\* The model follows at most MaxRequeues calls that queue a page again.
Requeued(p, snap) ==
  IF AlreadyDone(p, snap) \/ InQueue(p)
  THEN UNCHANGED nrequeues
  ELSE nrequeues < MaxRequeues /\ nrequeues' = nrequeues + 1

\* The model follows at most MaxFaults responses that leave a page unresolved.
Faulty(isFault) ==
  IF isFault THEN nfaults < MaxFaults /\ nfaults' = nfaults + 1 ELSE UNCHANGED nfaults

\* Lines 314-320: preloadPages loads the text of the next page not yet loaded,
\* stores it and queues its summary when the text is not blank; the store
\* change re-renders and re-runs the effects, whose closures then hold the
\* new render.
LoadPage ==
  /\ nextPage \in Pages
  /\ nextPage' = nextPage + 1
  /\ IF Docs[doc][nextPage].trim > 0
     THEN QueueSummary(nextPage, effectSnap)
     ELSE UNCHANGED <<summaryQueue, pageSummaryCache, generatingSummaries, dpc,
                      isProcessingQueue, curPages, everPlaced, everSent, drainSnap, reenq,
                      hist>>
  /\ effectSnap' = Snap(generatingSummaries', pageSummaryCache')
  /\ UNCHANGED <<doc, chains, nfaults, nrequeues>>
  /\ BatchOnly

\* Lines 321-323: preloadPages meets a page whose text is loaded and which has
\* no summary in the effect's render.
Revisit(p) ==
  /\ p \in Pages
  /\ p < nextPage
  /\ Docs[doc][p].len > 0
  /\ effectSnap.cache[p] = ""
  /\ QueueSummary(p, effectSnap)
  /\ Requeued(p, effectSnap)
  /\ UNCHANGED <<doc, nextPage, effectSnap, chains, nfaults>>
  /\ BatchOnly

\* Lines 650-654: the sidebar's Generate button for a loaded page, in the
\* render on screen.
Generate(p) ==
  /\ p \in Pages
  /\ p < nextPage
  /\ Docs[doc][p].len > 0
  /\ QueueSummary(p, CurrentRender)
  /\ Requeued(p, CurrentRender)
  /\ UNCHANGED <<doc, nextPage, effectSnap, chains, nfaults>>
  /\ BatchOnly

\* Lines 97-101: the pacing delay has elapsed, the loop goes round.
DelayElapsed ==
  /\ dpc = "delay"
  /\ ApplyDrain(ProcessQueue(summaryQueue, drainSnap, pageSummaryCache,
                             generatingSummaries), hist)
  /\ UNCHANGED <<doc, nextPage, effectSnap, drainSnap, chains, reenq, nfaults, nrequeues>>
  /\ BatchOnly

\* ---- the result of a batch

\* The property names a result object can have: the page numbers, written out.
PageKeys == {ToString(p) : p \in Pages}

PageOfKey(k) == CHOOSE p \in Pages : ToString(p) = k

\* A value of the result object: "summary" a summary text, "" the empty
\* string, "other" a value that is no string; "absent" for no such property.
EntryValues == {"absent", "summary", "", "other"}

\* The parsed result object (lines 174, 248) of each shape, for a batch.
ResultMap(pages, keys) ==
  [k \in PageKeys |->
     LET p == PageOfKey(k) IN
     CASE keys = "all" -> IF p \in PageNums(pages) THEN "summary" ELSE "absent"
       [] keys = "rest" -> IF p \in PageNums(Tail(pages)) THEN "summary" ELSE "absent"
       [] keys = "none" -> "absent"
       [] keys = "stray" -> IF p \in PageNums(pages) THEN "absent" ELSE "summary"
       [] keys = "junk" -> IF p = pages[1].pageNum THEN ""
                           ELSE IF p \in PageNums(pages) THEN "other" ELSE "absent"]

\* What JSON.parse gives for a JSON array of objects: every index an object.
ArrayResult == [k \in PageKeys |-> "other"]

\* obj[key] with a string key; obj[n] with a number, which JavaScript turns
\* into the property name ToString(n).
GetProperty(obj, k) == IF k \in DOMAIN obj THEN obj[k] ELSE "absent"
GetIndex(obj, n) == GetProperty(obj, ToString(n))

\* JavaScript truthiness of a value of the result object.
TruthyEntry(v) == v \in {"summary", "other"}

\* Lines 178 and 252: summaries[pageNum.toString()] || summaries[pageNum]
Lookup(summaries, pageNum) ==
  IF TruthyEntry(GetProperty(summaries, ToString(pageNum)))
  THEN GetProperty(summaries, ToString(pageNum))
  ELSE GetIndex(summaries, pageNum)

\* Lines 179 and 253: summary && typeof summary === "string"
IsSummary(v) == TruthyEntry(v) /\ v # "other"

\* A distribution that walks the keys of the result instead of the batch.
DistributeByKeys(cache, pages, summaries) ==
  [p \in DOMAIN cache |->
     IF IsSummary(Lookup(summaries, p)) THEN Lookup(summaries, p) ELSE cache[p]]

\* Lines 177-182 and 251-256: pagesToProcess.forEach(...) over the result.
Distribute(cache, pages, summaries) ==
  [p \in DOMAIN cache |->
     IF p \in PageNums(pages) /\ IsSummary(Lookup(summaries, p))
     THEN Lookup(summaries, p)
     ELSE cache[p]]

\* The pages of `pages` a result map with the given keys resolves
\* (lines 177-182, 251-256).
Keyed(pages, keys) ==
  {p \in PageNums(pages) : IsSummary(Lookup(ResultMap(pages, keys), p))}

\* fullSummary (line 212) by what lines 240-248 and 263 look at: the fence
\* around it ("json" for ```json, "plain" for ```, "none") and what is inside
\* (a JSON object, a JSON array, other text, nothing).
Body(fence, payload) == [fence |-> fence, payload |-> payload]

BodyOf(kind) ==
  CASE kind = "json" -> Body("none", "object")
    [] kind = "fenced" -> Body("json", "object")
    [] kind = "array" -> Body("none", "array")
    [] kind = "raw" -> Body("none", "prose")
    [] kind = "empty" -> Body("none", "blank")

\* Lines 240-246: trim, then take a leading ```json or ``` and the closing ``` off.
StripFence(body) == IF body.fence # "none" THEN [body EXCEPT !.fence = "none"] ELSE body

\* Line 248: JSON.parse throws unless the text is JSON.
JsonParses(body) == body.fence = "none" /\ body.payload \in {"object", "array"}

\* A fallback that gives the raw text to every page of the batch.
ParseFallbackAllPages(cache, pages, body) ==
  IF Len(pages) > 0 /\ body.payload # "blank"
  THEN SetPageSummaries(cache, PageNums(pages), "raw")
  ELSE cache

\* Lines 257-266: the raw text goes to the first page, unless it is blank.
ParseFallback(cache, pages, body) ==
  IF Len(pages) > 0 /\ body.payload # "blank"
  THEN SetPageSummaries(cache, {pages[1].pageNum}, "raw")
  ELSE cache

\* Lines 237-266: the streamed text becomes page summaries.
ParseBatchResult(cache, pages, body, keys) ==
  IF JsonParses(StripFence(body))
  THEN Distribute(cache, pages,
                  IF body.payload = "object" THEN ResultMap(pages, keys) ELSE ArrayResult)
  ELSE ParseFallback(cache, pages, body)

\* Lines 272-279 and 97-103: generateBatchSummaries ends (its finally clears
\* the generating marks of the batch) and the drain loop goes on.
BatchReturns(pages, cache) ==
  /\ generatingSummaries' = generatingSummaries \ PageNums(pages)
  /\ pageSummaryCache' = cache
  /\ dpc' = AfterBatch(summaryQueue)
  /\ isProcessingQueue' = (Len(summaryQueue) > 0)
  /\ curPages' = <<>>

\* Lines 130-279: the POST is answered.
\*   throw : fetch rejects, or !response.ok, or no body (lines 202-208)
\*   json  : a streamed body that parses to a map (lines 237-256)
\*   fenced: the same inside a ```json block
\*   array : a streamed body that parses to a JSON array
\*   raw   : a streamed body that does not parse (lines 257-266)
\*   empty : a streamed body with no text
\*   queued: 202 Accepted; the first status poll is then awaited (lines 152-198)
FetchReturns(kind, keys) ==
  /\ dpc = "fetch"
  /\ kind \in {"json", "fenced"} \/ keys = "none"
  /\ IF kind = "queued"
     THEN /\ Len(chains) < MaxChains
          /\ chains' = Append(chains, [pages |-> curPages, job |-> "queued",
                                       keys |-> "none", attempts |-> 0,
                                       attached |-> TRUE])
          /\ dpc' = "poll"
          /\ curPages' = <<>>
          /\ UNCHANGED <<generatingSummaries, pageSummaryCache, isProcessingQueue>>
     ELSE /\ BatchReturns(curPages,
               IF kind = "throw" THEN pageSummaryCache
               ELSE ParseBatchResult(pageSummaryCache, curPages, BodyOf(kind), keys))
          /\ UNCHANGED chains
  /\ Faulty(kind \in {"throw", "array", "raw", "empty"}
            \/ (kind \in {"json", "fenced"} /\ keys # "all"))
  /\ UNCHANGED <<doc, nextPage, summaryQueue, effectSnap, drainSnap, everPlaced, everSent,
                 reenq, hist, nrequeues>>
  /\ BatchOnly

\* ---- the server's side of a queued batch job

JobClaimed(i) ==
  /\ i \in 1..Len(chains)
  /\ chains[i].job = "queued"
  /\ chains' = [chains EXCEPT ![i].job = "processing"]
  /\ UNCHANGED nfaults
  /\ UNCHANGED <<doc, nextPage, summaryQueue, isProcessingQueue, generatingSummaries,
                 pageSummaryCache, effectSnap, drainSnap, dpc, curPages, everPlaced,
                 everSent, reenq, hist, nrequeues>>
  /\ BatchOnly

JobCompleted(i, keys) ==
  /\ i \in 1..Len(chains)
  /\ chains[i].job = "processing"
  /\ chains' = [chains EXCEPT ![i].job = "completed", ![i].keys = keys]
  /\ Faulty(keys # "all")
  /\ UNCHANGED <<doc, nextPage, summaryQueue, isProcessingQueue, generatingSummaries,
                 pageSummaryCache, effectSnap, drainSnap, dpc, curPages, everPlaced,
                 everSent, reenq, hist, nrequeues>>
  /\ BatchOnly

JobFailed(i) ==
  /\ i \in 1..Len(chains)
  /\ chains[i].job = "processing"
  /\ chains' = [chains EXCEPT ![i].job = "failed"]
  /\ Faulty(TRUE)
  /\ UNCHANGED <<doc, nextPage, summaryQueue, isProcessingQueue, generatingSummaries,
                 pageSummaryCache, effectSnap, drainSnap, dpc, curPages, everPlaced,
                 everSent, reenq, hist, nrequeues>>
  /\ BatchOnly

\* Lines 163-193: one run of poll() for the i-th polled job.  The first run is
\* awaited by generateBatchSummaries (line 195); a run that finds the job
\* unfinished arms a timer and returns, which ends that await; the later runs
\* are started by the timer.
poll(i) ==
  /\ i \in 1..Len(chains)
  /\ LET c == chains[i]
         timedOut == c.attempts >= maxAttempts
         done == ~timedOut /\ c.job = "completed"
         again == ~timedOut /\ c.job \notin {"completed", "failed"}
         cache == IF done
                  THEN Distribute(pageSummaryCache, c.pages, ResultMap(c.pages, c.keys))
                  ELSE pageSummaryCache
     IN /\ chains' = IF again
                     THEN [chains EXCEPT ![i].attempts = @ + 1, ![i].attached = FALSE]
                     ELSE RemoveAt(chains, i)
        /\ IF c.attached
           THEN BatchReturns(c.pages, cache)
           ELSE /\ pageSummaryCache' = cache
                /\ UNCHANGED <<generatingSummaries, dpc, isProcessingQueue, curPages>>
  /\ UNCHANGED <<doc, nextPage, summaryQueue, effectSnap, drainSnap, everPlaced, everSent,
                 reenq, hist, nfaults, nrequeues>>
  /\ BatchOnly

\* The model follows at most MaxPendingPolls polls that find the job unfinished.
PollStatus(i) ==
  /\ i \in 1..Len(chains)
  /\ chains[i].job \in {"completed", "failed"} \/ chains[i].attempts < MaxPendingPolls
  /\ poll(i)

BatchNext ==
  \/ LoadPage
  \/ \E p \in 1..NumPages : Revisit(p)
  \/ \E p \in 1..NumPages : Generate(p)
  \/ DelayElapsed
  \/ \E kind \in ResponseKinds, keys \in KeyChoices : FetchReturns(kind, keys)
  \/ \E i \in 1..MaxChains : JobClaimed(i)
  \/ \E i \in 1..MaxChains, keys \in KeyChoices : JobCompleted(i, keys)
  \/ \E i \in 1..MaxChains : JobFailed(i)
  \/ \E i \in 1..MaxChains : PollStatus(i)

-----------------------------------------------------------------------------
(***************************************************************************)
(* Provider router and adapter: selectModel and getOptimizedHistory of     *)
(* src/lib/smart-router.ts, streamFromProvider and checkApiKeys of         *)
(* src/lib/ai-providers.ts, POST of src/app/api/explain/route.ts           *)
(***************************************************************************)

\* Bound of the adapter model: the longest history handed to the adapter.
MaxHistory == 12

\* Program constants.
WordLimit == 10000
CharLimit == 50000
HistoryLimit == 10
LowWindow == 6
MidWindow == 10

\* An optional numeric field that was left out.
Missing == -1

\* ModelSelection.provider (smart-router.ts line 15).
Providers == {"groq", "siliconflow", "gemini", "github", "huggingface"}

\* The model each provider is called with (smart-router.ts lines 32-65,
\* route.ts lines 46-55).
ModelIdOf(p) ==
  CASE p = "groq" -> "llama-3.1-8b-instant"
    [] p = "siliconflow" -> "Qwen/Qwen2.5-7B-Instruct"
    [] p = "gemini" -> "gemini-1.5-flash"
    [] p = "huggingface" -> "meta-llama/Llama-3.1-8B-Instruct"
    [] OTHER -> "gpt-4o"

Selection(p) == [provider |-> p, modelId |-> ModelIdOf(p)]

NoSelection == [provider |-> "none", modelId |-> "none"]

\* A text by what the router looks at: text.length and text.split(/\s+/).length.
RText(length, words) == [length |-> length, words |-> words]

RouterTexts ==
  { RText(7, 1), RText(50000, 9000), RText(50001, 9000),
    RText(30000, 10000), RText(30000, 10001) }

\* RouterInput (smart-router.ts lines 6-12); optional fields may be left out.
RouterInputs ==
  [ text : RouterTexts,
    hasImage : {"undefined", "false", "true"},
    historyLength : {Missing, 0, HistoryLimit, HistoryLimit + 1},
    taskType : {"undefined", "simple", "complex_reasoning", "long_context", "vision"},
    wordCount : {Missing, 0, 50, WordLimit, WordLimit + 1, 15000} ]

NoInput ==
  [text |-> RText(0, 1), hasImage |-> "undefined", historyLength |-> Missing,
   taskType |-> "undefined", wordCount |-> Missing]

\* Line 25: input.wordCount || input.text.split(/\s+/).length
WordCountOf(input) ==
  IF input.wordCount \in {Missing, 0} THEN input.text.words ELSE input.wordCount

\* Line 26: input.hasImage || false
HasImageOf(input) == input.hasImage = "true"

\* Line 27: input.historyLength || 0
HistoryLengthOf(input) ==
  IF input.historyLength = Missing THEN 0 ELSE input.historyLength

\* Line 28: input.taskType || "simple"
TaskTypeOf(input) ==
  IF input.taskType = "undefined" THEN "simple" ELSE input.taskType

\* A router whose thresholds are inclusive.
selectModelInclusive(input) ==
  IF \/ HasImageOf(input)
     \/ WordCountOf(input) >= WordLimit
     \/ input.text.length >= CharLimit
  THEN Selection("gemini")
  ELSE IF TaskTypeOf(input) = "complex_reasoning" THEN Selection("huggingface")
  ELSE IF HistoryLengthOf(input) >= HistoryLimit THEN Selection("siliconflow")
  ELSE Selection("groq")

\* Lines 24-67: selectModel.
selectModel(input) ==
  IF \/ HasImageOf(input)
     \/ WordCountOf(input) > WordLimit
     \/ input.text.length > CharLimit
  THEN Selection("gemini")
  ELSE IF TaskTypeOf(input) = "complex_reasoning" THEN Selection("huggingface")
  ELSE IF HistoryLengthOf(input) > HistoryLimit THEN Selection("siliconflow")
  ELSE Selection("groq")

\* A history: the messages 1..n in order, or undefined.
History(n) == [defined |-> TRUE, msgs |-> [i \in 1..n |-> i]]

NoHistory == [defined |-> FALSE, msgs |-> <<>>]

Histories == {NoHistory} \cup {History(n) : n \in 0..MaxHistory}

\* Array.prototype.slice(-n): the last n elements, all of them when fewer.
SliceLast(msgs, n) ==
  SubSeq(msgs, IF Len(msgs) > n THEN Len(msgs) - n + 1 ELSE 1, Len(msgs))

\* smart-router.ts lines 78-98: getOptimizedHistory.
getOptimizedHistory(msgs, provider) ==
  IF provider \in {"groq", "siliconflow", "huggingface"} THEN SliceLast(msgs, LowWindow)
  ELSE IF provider = "gemini" THEN msgs
  ELSE IF provider = "github" THEN SliceLast(msgs, MidWindow)
  ELSE msgs

\* ai-providers.ts lines 255-276: checkApiKeys(provider).available
checkApiKeys(provider) == provider \in env

\* route.ts lines 30-32 and ai-providers.ts lines 156-158: the two fallback lists.
RouteFallbackProviders == <<"groq", "siliconflow", "huggingface", "gemini", "github">>

AdapterFallbackProviders == <<"groq", "siliconflow", "huggingface", "gemini">>

\* .filter((p) => p !== provider)
Without(list, provider) == SelectSeq(list, LAMBDA p : p # provider)

\* A walk that takes the head of the list without looking at its key.
KeyWalkUnchecked(chosen) ==
  LET list == Without(RouteFallbackProviders, chosen)
  IN IF checkApiKeys(chosen) THEN chosen ELSE list[1]

\* route.ts lines 26-83: the provider POST goes on with, "none" when no
\* provider has a key.
KeyWalk(chosen) ==
  LET list == Without(RouteFallbackProviders, chosen)
      avail == {i \in 1..Len(list) : checkApiKeys(list[i])}
  IN IF checkApiKeys(chosen) THEN chosen
     ELSE IF avail = {} THEN "none"
     ELSE list[CHOOSE i \in avail : \A j \in avail : i <= j]

\* A loop that starts over from the head of the list after every failure.
CallableRestarting(primary, from) ==
  LET list == Without(AdapterFallbackProviders, primary)
  IN {i \in 1..Len(list) : checkApiKeys(list[i]) /\ list[i] # "gemini"}

\* ai-providers.ts lines 162-244: the fallbacks of the loop, from position
\* `from` on, that reach an upstream call: they have a key and are not gemini.
CallableFrom(primary, from) ==
  LET list == Without(AdapterFallbackProviders, primary)
  IN {i \in from..Len(list) : checkApiKeys(list[i]) /\ list[i] # "gemini"}

\* ai-providers.ts line 149: the catch block tries fallbacks unless the
\* primary is siliconflow.
FallbackAllowed(primary) == primary # "siliconflow"

ViaPost == selected.provider # "none"

\* Errors by the call that raised them: the primary's (for gemini the throw
\* of line 89) or a fallback's.
NoError == <<"none", "none">>
PrimaryError(provider) == <<"primary", provider>>
FallbackError(provider) == <<"fallback", provider>>

\* A catch block that throws the error of the last provider that failed.
RethrownLast(err, fallbackError) == IF fallbackError # NoError THEN fallbackError ELSE err

\* ai-providers.ts line 248: `throw error`, the binding of the catch at line 147.
Rethrown(err, fallbackError) == err

\* streamFromProvider ends: it returns the stream or throws (line 248); POST
\* then answers (route.ts lines 103-120).
Ends(how, err) ==
  /\ outcome' = how
  /\ thrownError' = err
  /\ apc' = "done"
  /\ response' = IF ~ViaPost' THEN response
                 ELSE IF how = "stream" THEN "200-stream" ELSE "500-error"
  /\ UNCHANGED <<calls, awaiting>>

\* An upstream chat.completions.create() is issued and awaited.
Issue(provider, pos, oh) ==
  /\ calls' = Append(calls, [provider |-> provider, pos |-> pos, history |-> oh])
  /\ awaiting' = pos
  /\ apc' = "calling"
  /\ UNCHANGED <<outcome, thrownError, response>>

\* Lines 176-178, 198-200, 220-222: a fallback call sends `optimizedHistory`,
\* the window computed for the primary at lines 28-30.
FallbackHistory(primary, provider, oh) == oh

\* ai-providers.ts lines 162-248: the fallback loop from position `from`,
\* with `error` of the catch block and the fallbackError caught last.
FallbackLoop(primary, from, oh, err, fallbackError) ==
  LET list == Without(AdapterFallbackProviders, primary)
      todo == CallableFrom(primary, from)
  IN IF todo = {}
     THEN Ends("thrown", Rethrown(err, fallbackError))
     ELSE LET i == CHOOSE i \in todo : \A j \in todo : i <= j
          IN Issue(list[i], i, FallbackHistory(primary, list[i], oh))

\* ai-providers.ts lines 147-248: the catch block of the primary's failure.
CatchPrimary(primary, oh, err) ==
  /\ error' = err
  /\ IF FallbackAllowed(primary)
     THEN FallbackLoop(primary, 1, oh, err, NoError)
     ELSE Ends("thrown", Rethrown(err, NoError))

\* ai-providers.ts lines 21-146: streamFromProvider up to its first await.
\* gemini throws before any call (line 89).
StreamFromProvider(provider, h) ==
  LET oh == IF h.defined
            THEN [defined |-> TRUE, msgs |-> getOptimizedHistory(h.msgs, provider)]
            ELSE NoHistory
  IN /\ modelSelection' = provider
     /\ history' = h
     /\ optimizedHistory' = oh
     /\ IF provider = "gemini"
        THEN CatchPrimary(provider, oh, PrimaryError(provider))
        ELSE Issue(provider, 0, oh) /\ UNCHANGED error

RouterOnly == UNCHANGED <<queueVars, streamVars, batchVars>>

\* The terms POST /api/explain is sent: none, a word, a long passage.
Terms == {RText(0, 1), RText(7, 1), RText(50001, 9000)}

\* route.ts lines 7-120: POST /api/explain up to its first upstream call.
Post(term, taskType) ==
  /\ apc = "idle"
  /\ IF term.length = 0
     THEN /\ response' = "400"
          /\ apc' = "done"
          /\ UNCHANGED <<routerInput, selected, history, modelSelection,
                         optimizedHistory, awaiting, calls, outcome, error,
                         thrownError>>
     ELSE LET input == [text |-> term, hasImage |-> "undefined",
                        historyLength |-> Missing,
                        taskType |-> IF taskType = "undefined" THEN "simple" ELSE taskType,
                        wordCount |-> term.words]
              walk == KeyWalk(selectModel(input).provider)
          IN /\ routerInput' = input
             /\ selected' = selectModel(input)
             /\ IF walk = "none"
                THEN /\ response' = "500-nokeys"
                     /\ apc' = "done"
                     /\ UNCHANGED <<history, modelSelection, optimizedHistory,
                                    awaiting, calls, outcome, error, thrownError>>
                ELSE StreamFromProvider(walk, NoHistory)
  /\ UNCHANGED env
  /\ RouterOnly

\* A caller that holds a selection with a key calls streamFromProvider with
\* a conversation history (StreamOptions.history, ai-providers.ts line 14).
Invoke(provider, h) ==
  /\ apc = "idle"
  /\ checkApiKeys(provider)
  /\ UNCHANGED <<routerInput, selected, env>>
  /\ StreamFromProvider(provider, h)
  /\ RouterOnly

\* The awaited upstream call resolves with a stream or rejects.
UpstreamAnswers(ok) ==
  /\ apc = "calling"
  /\ UNCHANGED <<routerInput, selected, env, history, modelSelection, optimizedHistory>>
  /\ IF ok
     THEN Ends("stream", NoError) /\ UNCHANGED error
     ELSE IF awaiting = 0
     THEN CatchPrimary(modelSelection, optimizedHistory, PrimaryError(modelSelection))
     ELSE /\ FallbackLoop(modelSelection, awaiting + 1, optimizedHistory, error,
                          FallbackError(calls[Len(calls)].provider))
          /\ UNCHANGED error
  /\ RouterOnly

\* selectModel is applied to the input.
Route ==
  /\ apc = "routing"
  /\ selected' = selectModel(routerInput)
  /\ apc' = "done"
  /\ UNCHANGED <<routerInput, env, history, modelSelection, optimizedHistory,
                 awaiting, calls, outcome, error, thrownError, response>>
  /\ RouterOnly

RouterNext == Route

AdapterNext ==
  \/ \E term \in Terms, taskType \in {"undefined", "simple", "complex_reasoning"} :
       Post(term, taskType)
  \/ \E provider \in Providers, h \in Histories : Invoke(provider, h)
  \/ \E ok \in BOOLEAN : UpstreamAnswers(ok)

-----------------------------------------------------------------------------
\* ---- specifications: each starts its own component and parks the others

InitQueue ==
  /\ qjobs = <<>>
  /\ qclock = 0
  /\ qworker = [w \in Workers |-> 0]
  /\ qclaims = [j \in 1..MaxJobs |-> 0]
  /\ qcaWrites = [j \in 1..MaxJobs |-> 0]
  /\ srec = Absent /\ lastStatus = "null" /\ pollInterval = FALSE /\ sclosed = FALSE
  /\ sevents = <<>> /\ spolls = <<>> /\ sticks = 0 /\ saborted = FALSE
  /\ sfaults = 0 /\ ssaw = {} /\ slastRead = NothingRead
  /\ doc = 1 /\ nextPage = 1 /\ summaryQueue = <<>> /\ isProcessingQueue = FALSE
  /\ generatingSummaries = {} /\ pageSummaryCache = <<>>
  /\ effectSnap = Snap({}, <<>>) /\ drainSnap = Snap({}, <<>>)
  /\ dpc = "idle" /\ curPages = <<>> /\ chains = <<>>
  /\ everPlaced = {} /\ everSent = {} /\ reenq = FALSE /\ hist = HistoryNotKept
  /\ nfaults = 0 /\ nrequeues = 0
  /\ routerInput = NoInput /\ selected = NoSelection /\ env = {} /\ history = NoHistory
  /\ modelSelection = "none" /\ optimizedHistory = NoHistory /\ awaiting = 0
  /\ calls = <<>> /\ outcome = "none" /\ response = "none" /\ apc = "parked"
  /\ error = NoError /\ thrownError = NoError

InitStream ==
  /\ srec \in {Absent, StoredRecord("queued", NoResult, "", "absent")}
  /\ lastStatus = "null"
  /\ pollInterval = TRUE
  /\ sclosed = FALSE
  /\ sevents = <<>>
  /\ spolls = <<>>
  /\ sticks = 0
  /\ saborted = FALSE
  /\ sfaults = 0
  /\ ssaw = {}
  /\ slastRead = ReadsNotKept
  /\ qjobs = <<>> /\ qclock = 0 /\ qworker = [w \in Workers |-> 0]
  /\ qclaims = [j \in 1..MaxJobs |-> 0] /\ qcaWrites = [j \in 1..MaxJobs |-> 0]
  /\ doc = 1 /\ nextPage = 1 /\ summaryQueue = <<>> /\ isProcessingQueue = FALSE
  /\ generatingSummaries = {} /\ pageSummaryCache = <<>>
  /\ effectSnap = Snap({}, <<>>) /\ drainSnap = Snap({}, <<>>)
  /\ dpc = "idle" /\ curPages = <<>> /\ chains = <<>>
  /\ everPlaced = {} /\ everSent = {} /\ reenq = FALSE /\ hist = HistoryNotKept
  /\ nfaults = 0 /\ nrequeues = 0
  /\ routerInput = NoInput /\ selected = NoSelection /\ env = {} /\ history = NoHistory
  /\ modelSelection = "none" /\ optimizedHistory = NoHistory /\ awaiting = 0
  /\ calls = <<>> /\ outcome = "none" /\ response = "none" /\ apc = "parked"
  /\ error = NoError /\ thrownError = NoError

\* The same stream, with the history of reads kept.
InitPolls ==
  /\ srec \in {Absent, StoredRecord("queued", NoResult, "", "absent")}
  /\ lastStatus = "null"
  /\ pollInterval = TRUE
  /\ sclosed = FALSE
  /\ sevents = <<>>
  /\ spolls = <<>>
  /\ sticks = 0
  /\ saborted = FALSE
  /\ sfaults = 0
  /\ ssaw = {}
  /\ slastRead = NothingRead
  /\ qjobs = <<>> /\ qclock = 0 /\ qworker = [w \in Workers |-> 0]
  /\ qclaims = [j \in 1..MaxJobs |-> 0] /\ qcaWrites = [j \in 1..MaxJobs |-> 0]
  /\ doc = 1 /\ nextPage = 1 /\ summaryQueue = <<>> /\ isProcessingQueue = FALSE
  /\ generatingSummaries = {} /\ pageSummaryCache = <<>>
  /\ effectSnap = Snap({}, <<>>) /\ drainSnap = Snap({}, <<>>)
  /\ dpc = "idle" /\ curPages = <<>> /\ chains = <<>>
  /\ everPlaced = {} /\ everSent = {} /\ reenq = FALSE /\ hist = HistoryNotKept
  /\ nfaults = 0 /\ nrequeues = 0
  /\ routerInput = NoInput /\ selected = NoSelection /\ env = {} /\ history = NoHistory
  /\ modelSelection = "none" /\ optimizedHistory = NoHistory /\ awaiting = 0
  /\ calls = <<>> /\ outcome = "none" /\ response = "none" /\ apc = "parked"
  /\ error = NoError /\ thrownError = NoError

\* The component has mounted on a document: nothing loaded, nothing cached.
InitBatch ==
  /\ doc \in 1..(LongDoc - 1)
  /\ nextPage = 1
  /\ summaryQueue = <<>>
  /\ isProcessingQueue = FALSE
  /\ generatingSummaries = {}
  /\ pageSummaryCache = [p \in 1..Len(Docs[doc]) |-> ""]
  /\ effectSnap = Snap({}, [p \in 1..Len(Docs[doc]) |-> ""])
  /\ drainSnap = Snap({}, [p \in 1..Len(Docs[doc]) |-> ""])
  /\ dpc = "idle"
  /\ curPages = <<>>
  /\ chains = <<>>
  /\ everPlaced = {}
  /\ everSent = {}
  /\ reenq = FALSE
  /\ hist = HistoryNotKept
  /\ nfaults = 0
  /\ nrequeues = 0
  /\ qjobs = <<>> /\ qclock = 0 /\ qworker = [w \in Workers |-> 0]
  /\ qclaims = [j \in 1..MaxJobs |-> 0] /\ qcaWrites = [j \in 1..MaxJobs |-> 0]
  /\ srec = Absent /\ lastStatus = "null" /\ pollInterval = FALSE /\ sclosed = FALSE
  /\ sevents = <<>> /\ spolls = <<>> /\ sticks = 0 /\ saborted = FALSE
  /\ sfaults = 0 /\ ssaw = {} /\ slastRead = NothingRead
  /\ routerInput = NoInput /\ selected = NoSelection /\ env = {} /\ history = NoHistory
  /\ modelSelection = "none" /\ optimizedHistory = NoHistory /\ awaiting = 0
  /\ calls = <<>> /\ outcome = "none" /\ response = "none" /\ apc = "parked"
  /\ error = NoError /\ thrownError = NoError

\* The component has mounted on the long document.
InitLong ==
  /\ doc = LongDoc
  /\ nextPage = 1
  /\ summaryQueue = <<>>
  /\ isProcessingQueue = FALSE
  /\ generatingSummaries = {}
  /\ pageSummaryCache = [p \in 1..Len(Docs[doc]) |-> ""]
  /\ effectSnap = Snap({}, [p \in 1..Len(Docs[doc]) |-> ""])
  /\ drainSnap = Snap({}, [p \in 1..Len(Docs[doc]) |-> ""])
  /\ dpc = "idle"
  /\ curPages = <<>>
  /\ chains = <<>>
  /\ everPlaced = {}
  /\ everSent = {}
  /\ reenq = FALSE
  /\ hist = HistoryNotKept
  /\ nfaults = 0
  /\ nrequeues = 0
  /\ qjobs = <<>> /\ qclock = 0 /\ qworker = [w \in Workers |-> 0]
  /\ qclaims = [j \in 1..MaxJobs |-> 0] /\ qcaWrites = [j \in 1..MaxJobs |-> 0]
  /\ srec = Absent /\ lastStatus = "null" /\ pollInterval = FALSE /\ sclosed = FALSE
  /\ sevents = <<>> /\ spolls = <<>> /\ sticks = 0 /\ saborted = FALSE
  /\ sfaults = 0 /\ ssaw = {} /\ slastRead = NothingRead
  /\ routerInput = NoInput /\ selected = NoSelection /\ env = {} /\ history = NoHistory
  /\ modelSelection = "none" /\ optimizedHistory = NoHistory /\ awaiting = 0
  /\ calls = <<>> /\ outcome = "none" /\ response = "none" /\ apc = "parked"
  /\ error = NoError /\ thrownError = NoError

SpecQueue == InitQueue /\ [][QueueNext]_vars

SpecStream == InitStream /\ [][StreamNext]_vars
SpecPolls == InitPolls /\ [][StreamNext]_vars

SpecBatch == InitBatch /\ [][BatchNext]_vars

\* The assembler against a server that answers every batch inline (no 202).
InlineNext ==
  \/ LoadPage
  \/ \E p \in 1..NumPages : Revisit(p)
  \/ \E p \in 1..NumPages : Generate(p)
  \/ DelayElapsed
  \/ \E kind \in ResponseKinds \ {"queued"}, keys \in KeyChoices : FetchReturns(kind, keys)

SpecInline == InitBatch /\ [][InlineNext]_vars

\* The same, with the order of the pushes and of the POSTs kept.
InitOrder ==
  /\ doc \in 1..(LongDoc - 1)
  /\ nextPage = 1
  /\ summaryQueue = <<>>
  /\ isProcessingQueue = FALSE
  /\ generatingSummaries = {}
  /\ pageSummaryCache = [p \in 1..Len(Docs[doc]) |-> ""]
  /\ effectSnap = Snap({}, [p \in 1..Len(Docs[doc]) |-> ""])
  /\ drainSnap = Snap({}, [p \in 1..Len(Docs[doc]) |-> ""])
  /\ dpc = "idle"
  /\ curPages = <<>>
  /\ chains = <<>>
  /\ everPlaced = {}
  /\ everSent = {}
  /\ reenq = FALSE
  /\ hist = NothingQueued
  /\ nfaults = 0
  /\ nrequeues = 0
  /\ qjobs = <<>> /\ qclock = 0 /\ qworker = [w \in Workers |-> 0]
  /\ qclaims = [j \in 1..MaxJobs |-> 0] /\ qcaWrites = [j \in 1..MaxJobs |-> 0]
  /\ srec = Absent /\ lastStatus = "null" /\ pollInterval = FALSE /\ sclosed = FALSE
  /\ sevents = <<>> /\ spolls = <<>> /\ sticks = 0 /\ saborted = FALSE
  /\ sfaults = 0 /\ ssaw = {} /\ slastRead = NothingRead
  /\ routerInput = NoInput /\ selected = NoSelection /\ env = {} /\ history = NoHistory
  /\ modelSelection = "none" /\ optimizedHistory = NoHistory /\ awaiting = 0
  /\ calls = <<>> /\ outcome = "none" /\ response = "none" /\ apc = "parked"
  /\ error = NoError /\ thrownError = NoError

SpecOrder == InitOrder /\ [][InlineNext]_vars

\* Reading a document straight through, every batch answered inline in any
\* way; every batch submission returns (the awaited fetch resolves or
\* rejects) and every pacing timer fires.
DrainNext ==
  \/ LoadPage
  \/ DelayElapsed
  \/ \E kind \in ResponseKinds \ {"queued"}, keys \in KeyChoices : FetchReturns(kind, keys)

SpecDrain ==
  /\ InitBatch
  /\ [][DrainNext]_vars
  /\ WF_vars(\E kind \in ResponseKinds \ {"queued"}, keys \in KeyChoices :
               FetchReturns(kind, keys))
  /\ WF_vars(DelayElapsed)

\* Reading the long document straight through: pages are loaded in order, no
\* page is asked for twice, and every batch is answered inline with a summary
\* for each of its pages.
LongNext ==
  \/ LoadPage
  \/ DelayElapsed
  \/ FetchReturns("json", "all")

SpecLong == InitLong /\ [][LongNext]_vars

\* The assembler against a server that queues every batch (202): the job is
\* claimed late or never, may fail, and the client polls for as long as the
\* code lets it.
PollNext ==
  \/ LoadPage
  \/ DelayElapsed
  \/ FetchReturns("queued", "none")
  \/ \E i \in 1..MaxChains : JobClaimed(i)
  \/ \E i \in 1..MaxChains : JobFailed(i)
  \/ \E i \in 1..MaxChains : poll(i)

SpecPoll == InitBatch /\ [][PollNext]_vars

\* Reading a document straight through against a server that answers every
\* batch with a result object: inline with any of the shapes, or through a
\* queued job whose result leaves the first page out or maps only pages that
\* are not of the batch.
ResultsNext ==
  \/ LoadPage
  \/ DelayElapsed
  \/ \E kind \in {"json", "queued"}, keys \in KeyChoices : FetchReturns(kind, keys)
  \/ \E i \in 1..MaxChains : JobClaimed(i)
  \/ \E i \in 1..MaxChains, keys \in {"rest", "stray"} : JobCompleted(i, keys)
  \/ \E i \in 1..MaxChains : PollStatus(i)

SpecResults == InitBatch /\ [][ResultsNext]_vars

\* A RouterInput is about to be routed.
InitRouter ==
  /\ routerInput \in RouterInputs
  /\ selected = NoSelection
  /\ env = {}
  /\ history = NoHistory
  /\ modelSelection = "none"
  /\ optimizedHistory = NoHistory
  /\ awaiting = 0
  /\ calls = <<>>
  /\ outcome = "none"
  /\ error = NoError
  /\ thrownError = NoError
  /\ response = "none"
  /\ apc = "routing"
  /\ qjobs = <<>> /\ qclock = 0 /\ qworker = [w \in Workers |-> 0]
  /\ qclaims = [j \in 1..MaxJobs |-> 0] /\ qcaWrites = [j \in 1..MaxJobs |-> 0]
  /\ srec = Absent /\ lastStatus = "null" /\ pollInterval = FALSE /\ sclosed = FALSE
  /\ sevents = <<>> /\ spolls = <<>> /\ sticks = 0 /\ saborted = FALSE
  /\ sfaults = 0 /\ ssaw = {} /\ slastRead = NothingRead
  /\ doc = 1 /\ nextPage = 1 /\ summaryQueue = <<>> /\ isProcessingQueue = FALSE
  /\ generatingSummaries = {} /\ pageSummaryCache = <<>>
  /\ effectSnap = Snap({}, <<>>) /\ drainSnap = Snap({}, <<>>)
  /\ dpc = "idle" /\ curPages = <<>> /\ chains = <<>>
  /\ everPlaced = {} /\ everSent = {} /\ reenq = FALSE /\ hist = HistoryNotKept
  /\ nfaults = 0 /\ nrequeues = 0

\* The server is up with some set of API keys and no request yet.
InitAdapter ==
  /\ routerInput = NoInput
  /\ selected = NoSelection
  /\ env \in SUBSET Providers
  /\ history = NoHistory
  /\ modelSelection = "none"
  /\ optimizedHistory = NoHistory
  /\ awaiting = 0
  /\ calls = <<>>
  /\ outcome = "none"
  /\ error = NoError
  /\ thrownError = NoError
  /\ response = "none"
  /\ apc = "idle"
  /\ qjobs = <<>> /\ qclock = 0 /\ qworker = [w \in Workers |-> 0]
  /\ qclaims = [j \in 1..MaxJobs |-> 0] /\ qcaWrites = [j \in 1..MaxJobs |-> 0]
  /\ srec = Absent /\ lastStatus = "null" /\ pollInterval = FALSE /\ sclosed = FALSE
  /\ sevents = <<>> /\ spolls = <<>> /\ sticks = 0 /\ saborted = FALSE
  /\ sfaults = 0 /\ ssaw = {} /\ slastRead = NothingRead
  /\ doc = 1 /\ nextPage = 1 /\ summaryQueue = <<>> /\ isProcessingQueue = FALSE
  /\ generatingSummaries = {} /\ pageSummaryCache = <<>>
  /\ effectSnap = Snap({}, <<>>) /\ drainSnap = Snap({}, <<>>)
  /\ dpc = "idle" /\ curPages = <<>> /\ chains = <<>>
  /\ everPlaced = {} /\ everSent = {} /\ reenq = FALSE /\ hist = HistoryNotKept
  /\ nfaults = 0 /\ nrequeues = 0

SpecRouter == InitRouter /\ [][RouterNext]_vars

SpecAdapter == InitAdapter /\ [][AdapterNext]_vars

\* The awaited upstream call answers in the end.
SpecAdapterFair == SpecAdapter /\ WF_vars(\E ok \in BOOLEAN : UpstreamAnswers(ok))

-----------------------------------------------------------------------------
(***************************************************************************)
(* Properties                                                              *)
(***************************************************************************)

CountEvents(type) == Cardinality({i \in 1..Len(sevents) : sevents[i][1] = type})

\* The stream has ended: closed, timer stopped, and the last two events are
\* one event of the given type and the terminal sentinel, each the only one.
EndedWith(type) ==
  /\ sclosed
  /\ ~pollInterval
  /\ CountEvents(type) = 1
  /\ CountEvents("[DONE]") = 1
  /\ Len(sevents) >= 2
  /\ sevents[Len(sevents) - 1][1] = type
  /\ sevents[Len(sevents)] = EvDone

\* C1: once a poll callback of the open stream has read a `completed` record,
\* whatever its result payload, the stream has emitted exactly one `result`
\* event, then exactly one [DONE], is closed and has stopped polling.
C1_CompletedEndsStream ==
  (\E x \in ssaw : x[1] = "completed") => EndedWith("result")

\* C2: once a poll callback of the open stream has read a `failed` record, the
\* stream has emitted exactly one `error` event carrying the stored message (or
\* the default message when none is stored), then exactly one [DONE], is closed
\* and has stopped polling.
C2_FailedEndsStream ==
  \A x \in ssaw : x[1] = "failed" =>
    /\ EndedWith("error")
    /\ x[2] # "" => sevents[Len(sevents) - 1][2] = x[2]
    /\ x[2] = "" => sevents[Len(sevents) - 1][2] = "Job failed"

\* C2 witness: a failed job without a stored message ended the stream, and a
\* second, overlapping callback then ran into the closed stream.
C2_Witness ==
  /\ <<"failed", "">> \in ssaw
  /\ sclosed
  /\ sfaults > 0
  /\ ~saborted

\* C3: no job is returned by two claimNext calls, no two workers hold the same
\* job, and a job has left `queued` exactly when one claimNext returned it.
C3_AtMostOneProcessing ==
  /\ \A j \in 1..MaxJobs : qclaims[j] <= 1
  /\ \A v, w \in Workers : (v # w /\ qworker[v] # 0) => qworker[v] # qworker[w]
  /\ \A j \in QJobIds : (qjobs[j].status # "queued") <=> (qclaims[j] = 1)

\* C3 witness: two workers raced and each holds its own job, a third job waits.
C3_Witness ==
  /\ \E v, w \in Workers : v # w /\ qworker[v] # 0 /\ qworker[w] # 0
  /\ \E j \in QJobIds : qjobs[j].status = "queued"

\* The order of the job types the claim states: explain > summarize-batch > summarize.
Outranks(a, b) ==
  \/ a = "explain" /\ b # "explain"
  \/ a = "summarize-batch" /\ b = "summarize"

\* C4: whenever claimNext returns a job, no job still queued at that moment is
\* of a higher-priority type, and none of the same type was created earlier.
C4_PriorityOrdering ==
  [][\A w \in Workers :
       (qworker[w] = 0 /\ qworker'[w] # 0) =>
         LET j == qworker'[w] IN
           \A k \in QJobIds \ {j} :
             qjobs'[k].status = "queued" =>
               /\ ~Outranks(qjobs[k].type, qjobs[j].type)
               /\ qjobs[k].type = qjobs[j].type =>
                    qjobs[j].createdAt <= qjobs[k].createdAt]_vars

\* C4 witness: a worker holds a job that was created after a job of a lower
\* type which is still queued: the later job overtook it.
C4_Witness ==
  \E w \in Workers, k \in QJobIds :
    /\ qworker[w] # 0
    /\ qjobs[k].status = "queued"
    /\ Outranks(qjobs[qworker[w]].type, qjobs[k].type)
    /\ qjobs[k].createdAt < qjobs[qworker[w]].createdAt

ForwardSteps ==
  {<<"queued", "processing">>, <<"processing", "completed">>, <<"processing", "failed">>}

\* C5: a job's status only moves along queued -> processing -> {completed, failed},
\* a terminal status is never left, completedAt once set stays set and is
\* written at most once, exactly once for a completed job.
C5_StatusMonotone ==
  [][\A j \in QJobIds :
       /\ \/ qjobs'[j].status = qjobs[j].status
          \/ <<qjobs[j].status, qjobs'[j].status>> \in ForwardSteps
       /\ qjobs[j].completedAt = "set" => qjobs'[j].completedAt = "set"
       /\ qcaWrites'[j] <= 1
       /\ qjobs'[j].status = "completed" => qcaWrites'[j] = 1]_vars

\* C5 witness: one job has completed and another has failed.
C5_Witness ==
  \E j, k \in QJobIds :
    /\ qjobs[j].status = "completed" /\ qcaWrites[j] = 1
    /\ qjobs[k].status = "failed" /\ qcaWrites[k] = 0

\* ---- batch assembler

\* The estimated tokens of a batch: the sum of ceil(len(pageText)/4).
RECURSIVE BatchTokens(_)
BatchTokens(items) ==
  IF Len(items) = 0 THEN 0
  ELSE EstimatedTokens(Head(items).pageText) + BatchTokens(Tail(items))

\* A batch has been POSTed and the POST is not answered yet.
Submitted == dpc = "fetch"

\* The queued jobs of earlier batches that have not reached a terminal outcome.
UnfinishedJobs ==
  {i \in 1..Len(chains) : /\ chains[i].job \notin {"completed", "failed"}
                          /\ chains[i].attempts < maxAttempts}

\* The batches submitted whose outcome is still open.
InFlight == (IF Submitted THEN 1 ELSE 0) + Cardinality(UnfinishedJobs)

\* C6: every batch the drain loop submits has an estimated token sum of at
\* most MAX_BATCH_TOKENS, unless the batch holds exactly one page.
C6_TokenBudget ==
  Submitted => (Len(curPages) = 1 \/ BatchTokens(curPages) <= MAX_BATCH_TOKENS)

\* A batch of two pages that fills the budget exactly is submitted while a
\* third page that would not fit waits in the queue, after an oversized page
\* went out alone.
C6_Witness ==
  /\ Submitted
  /\ Len(curPages) = 2
  /\ BatchTokens(curPages) = MAX_BATCH_TOKENS
  /\ Len(summaryQueue) > 0
  /\ \E p \in everSent : EstimatedTokens(Docs[doc][p]) > MAX_BATCH_TOKENS

\* C7: every batch the drain loop submits holds at least one and at most
\* MAX_BATCH_PAGES pages, whatever was queued while the drain was running.
C7_PageCount ==
  Submitted => (Len(curPages) >= 1 /\ Len(curPages) <= MAX_BATCH_PAGES)

\* A full batch is submitted while more pages wait in the queue.
C7_Witness ==
  /\ Submitted
  /\ Len(curPages) = MAX_BATCH_PAGES
  /\ Len(summaryQueue) > 0

\* C8: there is never more than one submitted batch whose job has not reached
\* a terminal outcome, the 202 path included.
C8_OneBatchInFlight == InFlight <= 1

\* C9: queueSummary for a page that is cached, in flight or already queued
\* leaves the queue unchanged and starts no drain, and the queue never holds
\* one page number twice.
C9_EnqueueIdempotent ==
  /\ ~reenq
  /\ \A i, j \in 1..Len(summaryQueue) :
       summaryQueue[i].pageNum = summaryQueue[j].pageNum => i = j

\* C10 as stated: a page with fewer than 10 non-whitespace characters is never
\* in a submitted batch, and a page with 10 or more is never given the
\* placeholder.
C10_ShortPageByNonWhitespace ==
  \A p \in Pages :
    /\ Docs[doc][p].nonws < MinPageChars => p \notin everSent
    /\ Docs[doc][p].nonws >= MinPageChars => p \notin everPlaced

\* C10 amended: a page whose trimmed text is shorter than 10 characters is
\* never in a submitted batch, only such a page is given the placeholder, and
\* the placeholder it was given stays its summary.
C10_ShortPageByTrimmedLength ==
  \A p \in Pages :
    /\ Docs[doc][p].trim < MinPageChars => p \notin everSent
    /\ Docs[doc][p].trim >= MinPageChars => p \notin everPlaced
    /\ p \in everPlaced => pageSummaryCache[p] = PLACEHOLDER

\* A page of surrounding blanks and nine characters got the placeholder, and
\* a page of six letters separated by blanks went out in a batch.
C10_Witness ==
  /\ \E p \in everPlaced : Docs[doc][p] = TNine /\ pageSummaryCache[p] = PLACEHOLDER
  /\ \E p \in everSent : Docs[doc][p] = TSpaced

\* ---- provider router and adapter

\* The providers by the role the router's rules give them; the fifth provider,
\* github, is selected by no rule.
LongContextProvider == "gemini"
ReasoningTierProvider == "huggingface"
HighVolumeProvider == "siliconflow"
LowestLatencyProvider == "groq"
AlternativeReasoningProvider == "github"

\* The rules of the router, in order, over the values selectModel works on.
RouterRules(input) ==
  << [matches |-> \/ HasImageOf(input)
                  \/ WordCountOf(input) > WordLimit
                  \/ input.text.length > CharLimit,
      provider |-> LongContextProvider],
     [matches |-> TaskTypeOf(input) = "complex_reasoning",
      provider |-> ReasoningTierProvider],
     [matches |-> HistoryLengthOf(input) > HistoryLimit,
      provider |-> HighVolumeProvider],
     [matches |-> TRUE, provider |-> LowestLatencyProvider] >>

\* The provider of the first rule that matches.
FirstMatch(input) ==
  LET rules == RouterRules(input)
      hit == {i \in 1..Len(rules) : rules[i].matches}
  IN rules[CHOOSE i \in hit : \A j \in hit : i <= j].provider

ClaimedFallbackOrder ==
  << LowestLatencyProvider, HighVolumeProvider, AlternativeReasoningProvider,
     LongContextProvider, ReasoningTierProvider >>

\* The fallback order with the reasoning-tier provider third and the
\* alternative-reasoning provider last.
AmendedFallbackOrder ==
  << LowestLatencyProvider, HighVolumeProvider, ReasoningTierProvider,
     LongContextProvider, AlternativeReasoningProvider >>

\* POST went on with a provider: it has a key, it is the selected one when
\* that has a key, and else the first of `order` other than the selected one
\* that has a key.
WalkFollows(order) ==
  (selected # NoSelection /\ modelSelection # "none") =>
    /\ modelSelection \in env
    /\ selected.provider \in env => modelSelection = selected.provider
    /\ selected.provider \notin env =>
         \E i \in 1..Len(order) :
           /\ order[i] = modelSelection
           /\ \A j \in 1..(i - 1) : order[j] = selected.provider \/ order[j] \notin env

C13_FallbackExhaustion ==
  (env = {} /\ selected # NoSelection) =>
    /\ response = "500-nokeys"
    /\ apc = "done"
    /\ calls = <<>>
    /\ outcome = "none"

\* A complex-reasoning explain request met a server without any key.
C13_Witness ==
  /\ env = {}
  /\ selected.provider = ReasoningTierProvider
  /\ response = "500-nokeys"

\* The upstream calls of the running invocation stay within the fallback
\* list: the first goes to the primary, no provider is called twice, and
\* there are at most 1 + length of the list of them.
CallsBounded ==
  /\ \A i, j \in 1..Len(calls) : calls[i].provider = calls[j].provider => i = j
  /\ \A i \in 1..Len(calls) :
       IF calls[i].pos = 0
       THEN i = 1 /\ calls[i].provider = modelSelection
       ELSE /\ calls[i].provider # modelSelection
            /\ calls[i].provider =
                 Without(AdapterFallbackProviders, modelSelection)[calls[i].pos]
            /\ \A j \in 1..(i - 1) : calls[j].pos < calls[i].pos
  /\ Len(calls) <= 1 + Len(Without(AdapterFallbackProviders, modelSelection))

\* An invocation that is over returned a stream or threw.
EndsInStreamOrError ==
  (apc = "done" /\ modelSelection # "none") => outcome \in {"stream", "thrown"}

DocumentedFallbacks ==
  SelectSeq(Without(RouteFallbackProviders, modelSelection), LAMBDA p : p \in env)

\* The providers called after the primary, in order.
FallbacksTried ==
  LET fb == SelectSeq(calls, LAMBDA c : c.pos > 0)
  IN [i \in 1..Len(fb) |-> fb[i].provider]

\* C15: whichever provider is the primary, when its call fails every other
\* provider with a key is tried in the order Groq, SiliconFlow, HuggingFace,
\* Gemini, GitHub until one succeeds: none is skipped, and the invocation
\* fails only after all of them were tried.
C15_FallbackForEveryPrimary ==
  /\ Len(FallbacksTried) <= Len(DocumentedFallbacks)
  /\ FallbacksTried = SubSeq(DocumentedFallbacks, 1, Len(FallbacksTried))
  /\ outcome = "thrown" => FallbacksTried = DocumentedFallbacks

\* The history window of each provider as the claim gives it: the last 6
\* messages for the low-context providers, the last 10 for the mid-context
\* provider, the whole history for the long-context provider.
ClaimedWindow(msgs, provider) ==
  CASE provider \in {"groq", "siliconflow", "huggingface"} -> SliceLast(msgs, LowWindow)
    [] provider = "github" -> SliceLast(msgs, MidWindow)
    [] provider = "gemini" -> msgs

\* C16: every upstream call, to the primary or to a fallback, carries the
\* history window of the provider it goes to, a suffix of the input history.
C16_HistoryWindow ==
  \A i \in 1..Len(calls) :
    IF history.defined
    THEN /\ calls[i].history.defined
         /\ calls[i].history.msgs = ClaimedWindow(history.msgs, calls[i].provider)
    ELSE ~calls[i].history.defined


\* ---- status stream: what each poll sends

\* The events a callback added: those of `s` past the ones already sent.
EventsAdded(s) == SubSeq(s.events, Len(sevents) + 1, Len(s.events))

Sent(s, type) == \E k \in 1..Len(EventsAdded(s)) : EventsAdded(s)[k][1] = type

\* This step is callback i resuming, and it sends an event of this type.
PollSends(i, type) ==
  /\ i \in 1..Len(spolls)
  /\ spolls[i].pc = "got"
  /\ Sent(PollCallback(StreamState, spolls[i].rec), type)
  /\ sevents' = PollCallback(StreamState, spolls[i].rec).events
  /\ spolls' = RemoveAt(spolls, i)

\* Callback i holds the same status as the read before its own gave.
ReadSameStatus(i) == spolls[i].prev.status = spolls[i].rec.status

\* Callback i holds the same status and the same progress as the read before
\* its own gave.
ReadSameProgress(i) ==
  /\ ReadSameStatus(i)
  /\ spolls[i].prev.progress = spolls[i].rec.progress

AlreadySent(ev) == \E k \in 1..Len(sevents) : sevents[k] = ev

\* C17: the stream sends a `status` event only on a poll that read another
\* status than the poll before it: two polls in a row that read the same
\* status never make two `status` events.
C17_StatusOnlyOnTransition ==
  [][\A i \in 1..MaxInflight :
       PollSends(i, "status") /\ ReadSameStatus(i) => ~AlreadySent(EvStatus)]_vars

\* C18: identical partial content read by two polls in a row, the status
\* unchanged, is sent as a `progress` event once, not once per poll.
C18_ProgressOnlyForNewContent ==
  [][\A i \in 1..MaxInflight :
       PollSends(i, "progress") /\ ReadSameProgress(i)
         => ~AlreadySent(EvProgress(spolls[i].rec.progress))]_vars


\* ---- status stream: the client disconnects

\* This step is the abort listener running.
AbortFires == ~saborted /\ saborted'

\* After the abort the timer is cleared and the stream is closed.
AbortStops == saborted => ~pollInterval /\ sclosed

\* After the abort no event is accepted, whatever callback resumes.
NoEventAfterAbort == saborted => sevents' = sevents

\* The abort listener raises nothing and leaves the stored record alone.
AbortHandlerClean == AbortFires => sfaults' = sfaults /\ srec' = srec

\* C19: once the abort signal has fired the stream has stopped polling and is
\* closed, and no event is enqueued on it any more, also by a callback whose
\* read started before the abort and was answered after it; the abort listener
\* raises no error, also on a stream that was closed before, and writes
\* nothing to the Status Store.
C19_ClientDisconnect ==
  /\ []AbortStops
  /\ [][NoEventAfterAbort]_vars
  /\ [][AbortHandlerClean]_vars


\* ---- status stream: no record for the jobId

\* An event that carries an error: {type: "error", ...} or the bare {error: ...}.
IsErrorEvent(ev) == ev[1] \in {"error", "raw-error"}

ErrorEvents == {k \in 1..Len(sevents) : IsErrorEvent(sevents[k])}

\* This step is callback i resuming on the open stream with "no record".
PollFindsNoRecord(i) ==
  /\ i \in 1..Len(spolls)
  /\ spolls[i].pc = "got"
  /\ IsNull(spolls[i].rec)
  /\ ~sclosed
  /\ spolls' = RemoveAt(spolls, i)

\* The poll that finds no record sends the `Job not found` event, closes the
\* stream and clears the timer.
NotFoundEndsStream ==
  \A i \in 1..MaxInflight :
    PollFindsNoRecord(i) =>
      /\ sevents' = Append(sevents, EvNotFound)
      /\ sclosed'
      /\ ~pollInterval'

\* Once sent, the `Job not found` event is the only error event and the last
\* event of the stream, which is closed with its timer cleared.
NotFoundSentOnce ==
  AlreadySent(EvNotFound) =>
    /\ Cardinality(ErrorEvents) = 1
    /\ sevents[Len(sevents)] = EvNotFound
    /\ sclosed
    /\ ~pollInterval

\* After it no poll is started.
NoPollAfterNotFound == AlreadySent(EvNotFound) => sticks' = sticks

PollsBounded == \A i \in 1..Len(chains) : chains[i].attempts <= maxAttempts

\* This step is a run of poll() for the i-th job that throws: the attempts are
\* used up (line 165) or the job has failed (line 185).
PollThrows(i) ==
  /\ i \in 1..Len(chains)
  /\ chains[i].attempts >= maxAttempts \/ chains[i].job = "failed"
  /\ chains' = RemoveAt(chains, i)

\* What poll() throws ends the submission that waits for it.
ErrorEndsSubmission == \A i \in 1..MaxChains : PollThrows(i) => chains[i].attached

\* C21: the status polling of a queued batch job stops after at most 300
\* attempts, and the timeout error, like a `failed` status met on any poll,
\* ends the batch submission and reaches its caller.
C21_PollTimeout ==
  /\ []PollsBounded
  /\ [][ErrorEndsSubmission]_vars


\* ---- batch assembler: what a result resolves

\* The result has this page's number as a key, in string or in number form,
\* with a summary text.
HasSummaryFor(summaries, p) ==
  \/ GetProperty(summaries, ToString(p)) = "summary"
  \/ GetIndex(summaries, p) = "summary"

\* This step resolves the pages of the batch that have a summary in the
\* result with that summary, and writes no other page.
ResolvedFrom(pages, summaries) ==
  \A p \in Pages :
    pageSummaryCache'[p] =
      IF p \in PageNums(pages) /\ HasSummaryFor(summaries, p)
      THEN GetProperty(summaries, ToString(p))
      ELSE pageSummaryCache[p]

\* This step is the POST answered inline with a result object.
InlineResult(keys) ==
  /\ dpc = "fetch"
  /\ dpc' \in {"idle", "delay"}
  /\ FetchReturns("json", keys) \/ FetchReturns("fenced", keys)

\* This step is a run of poll() that finds the i-th job completed.
PollApplies(i) ==
  /\ i \in 1..Len(chains)
  /\ chains[i].job = "completed"
  /\ chains[i].attempts < maxAttempts
  /\ chains' = RemoveAt(chains, i)

\* C22: when a batch completes with a map keyed by page number, inline or as
\* a queued job, every page of the batch whose number is a key, in string or
\* in number form, with a summary string gets exactly that summary; the pages
\* of the batch the map leaves out stay as they were, and no page outside the
\* batch is written.
C22_ResultDistribution ==
  [][/\ \A keys \in KeyChoices :
          InlineResult(keys) => ResolvedFrom(curPages, ResultMap(curPages, keys))
     /\ \A i \in 1..MaxChains :
          PollApplies(i) =>
            ResolvedFrom(chains[i].pages, ResultMap(chains[i].pages, chains[i].keys))]_vars

\* A batch of two pages came back with a summary for the second page only:
\* the second page holds it, the first page is unresolved and no longer marked.
C22_Witness ==
  /\ doc = 1
  /\ {2, 3} \subseteq everSent
  /\ pageSummaryCache[2] = ""
  /\ pageSummaryCache[3] = "summary"
  /\ 2 \notin generatingSummaries
  /\ nfaults = 1


\* ---- batch assembler: the drain loop

\* A pass of the outer loop (started by queueSummary, or after the pacing
\* delay) takes at least one entry off the pending queue; the pass started by
\* queueSummary works on the queue with the new page appended.
IterationRemoves ==
  /\ dpc = "delay" /\ dpc' # "delay" => Len(summaryQueue') < Len(summaryQueue)
  /\ dpc = "idle" /\ dpc' # "idle" => Len(summaryQueue') < Len(summaryQueue) + 1

\* The loop is left only with the pending queue empty, and then the flag is
\* cleared.
LoopEndsEmpty == dpc = "idle" => summaryQueue = <<>> /\ ~isProcessingQueue

\* A page enqueued while the drain runs starts no second drain.
ReentrantIsNoOp ==
  isProcessingQueue /\ Len(summaryQueue') > Len(summaryQueue)
    => dpc' = dpc /\ curPages' = curPages /\ isProcessingQueue'

\* C23: a drain that has started ends, every batch submission returning,
\* with the pending queue empty and the draining flag cleared; every pass of
\* its outer loop takes at least one entry off the queue, also when the front
\* page alone is over MAX_BATCH_TOKENS and when pages are enqueued while the
\* drain is running, which starts no second drain.
C23_DrainTerminates ==
  /\ [][IterationRemoves /\ ReentrantIsNoOp]_vars
  /\ []LoopEndsEmpty
  /\ (isProcessingQueue ~> (dpc = "idle"))

\* The page over the token budget went out alone, and a batch of two pages
\* that were enqueued while the drain ran is now in flight.
C23_Witness ==
  /\ doc = 1
  /\ 1 \in everSent
  /\ dpc = "fetch"
  /\ Len(curPages) = 2


\* ---- batch assembler: pacing

\* This step submits a batch (the POST of line 130 goes out).
Submits == dpc # "fetch" /\ dpc' = "fetch"

\* This step is a batch submission returning to the drain loop.
SubmissionReturns == dpc \in {"fetch", "poll"} /\ dpc' \notin {"fetch", "poll"}

\* The pacing delay is entered only when a submission has returned and pages
\* are pending; with nothing pending the loop ends without a delay.
DelayOnlyWhenPending ==
  /\ SubmissionReturns => dpc' = IF summaryQueue = <<>> THEN "idle" ELSE "delay"
  /\ dpc # "delay" /\ dpc' = "delay" => SubmissionReturns

\* C24 as claimed: any two consecutive batch submissions of one assembler are
\* separated by the pacing delay, taken after the earlier one has returned.
C24_PacedSubmissions ==
  [][/\ Submits /\ everSent # {} => dpc = "delay"
     /\ DelayOnlyWhenPending]_vars

\* C24 amended: two consecutive batch submissions of one run of the drain
\* loop are separated by the pacing delay, taken after the earlier one has
\* returned and only when pages are pending; the first submission of a drain
\* started later follows the last one without any delay.
C24_PacedWithinDrain ==
  [][/\ Submits /\ isProcessingQueue => dpc = "delay"
     /\ DelayOnlyWhenPending]_vars

\* The page over the budget has been sent and has returned while the next
\* page was pending: the drain is pacing before its second batch.
C24_Witness ==
  /\ doc = 1
  /\ everSent = {1}
  /\ dpc = "delay"
  /\ Len(summaryQueue) > 0


\* ---- batch assembler: a result that is no map of page summaries

\* The streamed answers whose text is no JSON map, fenced or not.
NotAMap == {kind \in ResponseKinds \ {"throw", "queued"} : BodyOf(kind).payload # "object"}

\* The streamed answers whose text JSON.parse rejects after fence stripping.
Unparseable == {kind \in ResponseKinds \ {"throw", "queued"} : ~JsonParses(StripFence(BodyOf(kind)))}

\* This step is generateBatchSummaries getting the answer `kind` for a batch.
Answered(kind) == curPages # <<>> /\ FetchReturns(kind, "none")

\* The raw text goes to the first page of the batch (an empty text leaves
\* nothing to assign) and no other page is given a summary.
FirstPageGetsRawText(kind) ==
  /\ BodyOf(kind).payload # "blank" => pageSummaryCache'[curPages[1].pageNum] = "raw"
  /\ \A p \in DOMAIN pageSummaryCache :
       p # curPages[1].pageNum => pageSummaryCache'[p] = pageSummaryCache[p]

\* The submission ends without failing the drain: the marks of the batch are
\* cleared and the loop goes on to pace for the next batch, or ends when
\* nothing is pending.
DrainGoesOn ==
  /\ generatingSummaries' \cap PageNums(curPages) = {}
  /\ dpc' = IF summaryQueue = <<>> THEN "idle" ELSE "delay"

PollReadThrew(i) ==
  /\ i \in 1..Len(spolls)
  /\ spolls[i].pc = "got"
  /\ spolls[i].rec = ReadError
  /\ spolls' = RemoveAt(spolls, i)

\* On the open stream the callback whose read threw sends the error event,
\* clears the timer and closes the stream; it starts no other read.  On a
\* stream already closed it adds nothing.
ReadErrorEndsStream ==
  \A i \in 1..MaxInflight :
    PollReadThrew(i) =>
      /\ sticks' = sticks
      /\ IF sclosed
         THEN sevents' = sevents
         ELSE /\ sevents' = Append(sevents, EvReadError)
              /\ sclosed'
              /\ ~pollInterval'

\* Once sent, the read error is the only error event and the last event of
\* the stream, which is closed with its timer cleared.
ReadErrorSentOnce ==
  AlreadySent(EvReadError) =>
    /\ Cardinality(ErrorEvents) = 1
    /\ sevents[Len(sevents)] = EvReadError
    /\ sclosed
    /\ ~pollInterval

\* After it no poll is started and nothing is enqueued.
NothingAfterReadError ==
  AlreadySent(EvReadError) => sticks' = sticks /\ sevents' = sevents

TerminalEvents ==
  {k \in 1..Len(sevents) : sevents[k][1] = "result" \/ IsErrorEvent(sevents[k])}

\* At most one terminal event and at most one [DONE] have been enqueued.
TerminalOnce ==
  /\ Cardinality(TerminalEvents) <= 1
  /\ CountEvents("[DONE]") <= 1

\* A closed stream stays closed, so it is closed by one step only, and
\* nothing is enqueued on it.
ClosedIsFinal == sclosed => sclosed' /\ sevents' = sevents

\* A callback that resumes on the closed stream enqueues nothing, whatever
\* it has read, and leaves the stream closed.
LatePollAddsNothing ==
  \A i \in 1..MaxInflight :
    (/\ i \in 1..Len(spolls)
     /\ spolls[i].pc = "got"
     /\ sclosed
     /\ spolls' = RemoveAt(spolls, i))
    => /\ PollCallback(StreamState, spolls[i].rec).events = sevents
       /\ sevents' = sevents
       /\ sclosed'

\* C27: however the asynchronous poll callbacks of the 1 s interval overlap,
\* the terminal event (`result` or `error`) and [DONE] are each enqueued at
\* most once, the stream is closed at most once, and nothing is enqueued
\* after the close.
C27_OverlappingPolls ==
  /\ []TerminalOnce
  /\ [][ClosedIsFinal /\ LatePollAddsNothing]_vars

\* Two callbacks overlapped on a completed job: the first sent the result and
\* [DONE] and closed the stream, the second read the same record and resumed
\* on the closed stream.
C27_Witness ==
  /\ srec.status = "completed"
  /\ CountEvents("result") = 1
  /\ CountEvents("[DONE]") = 1
  /\ sclosed
  /\ sfaults > 0
  /\ spolls = <<>>
  /\ ~saborted


\* ---- batch assembler: the in-flight marks

\* The pages of the batches whose job has not reached a terminal outcome:
\* the batch whose POST is not answered yet and the batches of the polled
\* jobs (a polled job leaves `chains` when its summaries are applied, when it
\* has failed, or when the polls time out).
OutstandingPages ==
  (IF Submitted THEN PageNums(curPages) ELSE {})
    \cup UNION {PageNums(chains[i].pages) : i \in 1..Len(chains)}

\* Every page of an outstanding batch carries its in-flight mark.
OutstandingMarked == OutstandingPages \subseteq generatingSummaries

\* No page of the batch being submitted is in a batch still outstanding.
NoResubmission ==
  Submitted =>
    PageNums(curPages) \cap UNION {PageNums(chains[i].pages) : i \in 1..Len(chains)} = {}

\* C28: every page of a submitted batch is in the generating set from the
\* submission until the batch's job has reached a terminal outcome, so no page
\* is submitted again while an earlier job that contains it is outstanding.
C28_MarksBracketJob == OutstandingMarked /\ NoResubmission


\* ---- provider adapter: the error of an invocation that fails

\* streamFromProvider has thrown after the primary and at least one fallback
\* call were rejected.
FallbackAlsoFailed ==
  /\ outcome = "thrown"
  /\ \E k \in 1..Len(calls) : calls[k].pos > 0

\* C29: when the primary provider fails and every fallback lacks credentials,
\* is skipped or fails too, streamFromProvider throws the primary's original
\* error, never a fallback's, and POST /api/explain answers with the 500 error
\* response, not with a stream.
C29_OriginalErrorWins ==
  outcome = "thrown" =>
    /\ thrownError = PrimaryError(modelSelection)
    /\ ViaPost => response = "500-error"

\* A request to /api/explain whose primary and whose fallback both failed.
C29_Witness ==
  /\ ViaPost
  /\ FallbackAlsoFailed
  /\ thrownError = PrimaryError(modelSelection)
  /\ response = "500-error"


\* ---- batch assembler: the order of the pages

RECURSIVE Flatten(_)
Flatten(seqs) == IF seqs = <<>> THEN <<>> ELSE Head(seqs) \o Flatten(Tail(seqs))

\* `a` can be got from `b` by leaving entries out.
RECURSIVE IsSubsequence(_, _)
IsSubsequence(a, b) ==
  IF a = <<>> THEN TRUE
  ELSE IF b = <<>> THEN FALSE
  ELSE IF Head(a) = Head(b) THEN IsSubsequence(Tail(a), Tail(b))
  ELSE IsSubsequence(a, Tail(b))

\* The batches POSTed so far, one after the other, are a subsequence of the
\* pushes on the queue.
PostedInPushOrder == IsSubsequence(Flatten(hist.posted), hist.pushed)

\* The queue a pass of the drain loop starts from: what is pending, or the
\* one page whose push starts the drain.
PassQueue ==
  IF dpc = "delay" THEN summaryQueue
  ELSE <<Item(hist'.pushed[Len(hist'.pushed)])>>

\* The loop drops this queue entry: cached or in flight in its render, or short.
Dropped(item) == AlreadyDone(item.pageNum, drainSnap') \/ IsEmptyPage(item.pageText)

\* The batch of a pass is what is left of a run from the front of the queue
\* after the drops, and the rest of the queue stays pending in its order.
BatchIsFrontRun ==
  Submits =>
    \E n \in 1..Len(PassQueue) :
      /\ curPages' = SelectSeq(SubSeq(PassQueue, 1, n), LAMBDA item : ~Dropped(item))
      /\ SubSeq(PassQueue, n + 1, Len(PassQueue)) = summaryQueue'

\* A page is recorded as left at the front exactly when the batch stopped for
\* its tokens: the page heads the queue, the batch has room for a page, and
\* the page's tokens on top of the batch's exceed the budget.
LeftForTokens ==
  Submits /\ hist'.left # 0 =>
    /\ summaryQueue' # <<>>
    /\ Head(summaryQueue').pageNum = hist'.left
    /\ BatchHasRoom(curPages')
    /\ BatchTokens(curPages') + EstimatedTokens(Head(summaryQueue').pageText)
         > MAX_BATCH_TOKENS

\* The page left at the front is the first page of the next batch.
LeftPageLeadsNext ==
  Submits /\ hist.left # 0 => curPages'[1].pageNum = hist.left

\* C30: each submitted batch is a contiguous run from the front of the
\* pending queue (less the cached, in-flight and short pages), the submitted
\* batches put one after the other are a subsequence of the enqueue order, and
\* a page left at the front for the token limit leads the next batch.
C30_EnqueueOrderKept ==
  /\ []PostedInPushOrder
  /\ [][BatchIsFrontRun /\ LeftForTokens /\ LeftPageLeadsNext]_vars

\* Page 4 was left at the front when the batch of pages 2 and 3 filled the
\* budget, and then led the next batch, ahead of page 5.
C30_Witness ==
  /\ doc = 1
  /\ Len(hist.posted) = 3
  /\ hist.posted[2] = <<2, 3>>
  /\ hist.posted[3] = <<4, 5>>

=============================================================================
